---- MODULE Spec2Model ----
(***************************************************************************)
(* Model of the PassFF host application (src/src/passff.py): the native-   *)
(* messaging bridge between the browser extension and the `pass` script.   *)
(*                                                                         *)
(* Text is modelled as a sequence of one-character strings, bytes as       *)
(* integers 0..255, so that the regular expressions, the JSON codec and    *)
(* the length prefix are computed the way the code computes them.          *)
(***************************************************************************)
EXTENDS Integers, Sequences, FiniteSets, TLC

VARIABLES
    pc,               \* position of the running code
    exit_status,      \* process exit status, "none" while running
    error,            \* uncaught exception that ended the process, or "none"
    environ,          \* os.environ: the host's environment
    stdin,            \* bytes waiting on standard input
    byteorder,        \* native byte order of the host ('@I')
    receivedMessage,  \* decoded request (tagged JSON value)
    opt_args,         \* option flags of the command line
    pos_args,         \* positional arguments of the command line
    std_input,        \* payload for the child's stdin, or None
    env,              \* environment: variable name -> text
    cmd,              \* argv of the child
    proc_input,       \* proc_params['input']: bytes or None
    child,            \* the child process: state, argv, stdin, env
    proc,             \* CompletedProcess: returncode, stdout, stderr
    stdout_buf,       \* bytes written to standard output so far
    opts,             \* setFlags: local option string
    flags,            \* setFlags: flags still to apply
    stderr,           \* cleanStderr: the text to classify
    lines,            \* cleanStderr: stderr.split("\n")
    idx,              \* cleanStderr: number of lines taken by the loop
    preserve,         \* cleanStderr: retained entries
    error_code,       \* cleanStderr: current error code
    cleaned,          \* cleanStderr: returned pair, or None
    messageContent,   \* encodeMessage: the value to encode
    encodedMessage    \* encodeMessage: {'length', 'content'}, or None

vars == <<pc, exit_status, error, environ, stdin, byteorder, receivedMessage, opt_args,
          pos_args, std_input, env, cmd, proc_input, child, proc, stdout_buf,
          opts, flags, stderr, lines, idx, preserve, error_code, cleaned,
          messageContent, encodedMessage>>

procVars  == <<exit_status, error>>
ioVars    == <<stdin, byteorder, stdout_buf>>
mainVars  == <<receivedMessage, opt_args, pos_args, std_input, cmd, proc_input,
               child, proc>>
flagVars  == <<opts, flags>>
cleanVars == <<stderr, lines, idx, preserve, error_code, cleaned>>
codecVars == <<messageContent, encodedMessage>>

None == "None"

-----------------------------------------------------------------------------
(* Bounds of the model.                                                    *)

\* Fragments concatenated into a host option string
MaxFrags == 3
\* Lines of a diagnostic stream
MaxLines == 3
\* Bytes cut off the end of a frame's payload
MaxCut == 2
\* Elements of a request after its first
MaxArgs == 3
\* Characters of a text field of an encoded message
MaxText == 2

-----------------------------------------------------------------------------
(* Text helpers.                                                           *)

\* Python's str.isspace() / the regex class \s, over the model's alphabet.
IsSpace(c) == c \in {" ", "\t", "\n"}

\* s[i:].startswith(p), with i counted from 1.
StartsAt(s, i, p) ==
    /\ i + Len(p) - 1 <= Len(s)
    /\ \A k \in 1..Len(p) : s[i + k - 1] = p[k]

\* s.startswith(p)
StartsWith(s, p) == StartsAt(s, 1, p)

\* `p in s`
Contains(s, p) == \E i \in 1..(Len(s) - Len(p) + 1) : StartsAt(s, i, p)

\* First index >= i of s that holds no whitespace (Len(s)+1 when none): \s*
RECURSIVE SkipSpace(_, _)
SkipSpace(s, i) ==
    IF i <= Len(s) /\ IsSpace(s[i]) THEN SkipSpace(s, i + 1) ELSE i

\* First index >= i of s that holds whitespace (Len(s)+1 when none): \S*
RECURSIVE SkipNonSpace(_, _)
SkipNonSpace(s, i) ==
    IF i <= Len(s) /\ ~IsSpace(s[i]) THEN SkipNonSpace(s, i + 1) ELSE i

\* str.strip()
RECURSIVE RStrip(_)
RStrip(s) ==
    IF s # <<>> /\ IsSpace(s[Len(s)]) THEN RStrip(SubSeq(s, 1, Len(s) - 1)) ELSE s

Strip(s) == RStrip(SubSeq(s, SkipSpace(s, 1), Len(s)))

\* Concatenation of a sequence of texts.
RECURSIVE Concat(_)
Concat(ss) == IF ss = <<>> THEN <<>> ELSE Head(ss) \o Concat(Tail(ss))

\* sep.join(ss)
RECURSIVE Join(_, _)
Join(sep, ss) ==
    IF ss = <<>> THEN <<>>
    ELSE IF Len(ss) = 1 THEN ss[1]
    ELSE ss[1] \o sep \o Join(sep, Tail(ss))

-----------------------------------------------------------------------------
(* setFlags (passff.py 57-68).                                             *)

DashDash == <<"-", "-">>

\* The flags dict of the call at line 153, in insertion order.
InjectedFlags ==
    << [flag  |-> <<"s", "t", "a", "t", "u", "s", "-", "f", "d">>,
        value |-> <<"2">>],
       [flag  |-> <<"d", "e", "b", "u", "g">>,
        value |-> <<"i", "p", "c">>] >>

\* Characters shlex.quote leaves alone: [A-Za-z0-9_@%+=:,./-]
ShlexSafe(c) ==
    c \in {"a", "b", "c", "d", "e", "f", "g", "h", "i", "j", "k", "l", "m",
           "n", "o", "p", "q", "r", "s", "t", "u", "v", "w", "x", "y", "z",
           "0", "1", "2", "3", "4", "5", "6", "7", "8", "9",
           "_", "@", "%", "+", "=", ":", ",", ".", "/", "-"}

RECURSIVE QuoteInner(_)
QuoteInner(s) ==
    IF s = <<>> THEN <<>>
    ELSE (IF Head(s) = "'" THEN <<"'", "\"", "'", "\"", "'">> ELSE <<Head(s)>>)
         \o QuoteInner(Tail(s))

\* shlex.quote(s)
ShlexQuote(s) ==
    IF s = <<>> THEN <<"'", "'">>
    ELSE IF \A k \in 1..Len(s) : ShlexSafe(s[k]) THEN s
    ELSE <<"'">> \o QuoteInner(s) \o <<"'">>

\* End (exclusive) of the match of  --flag(?:(?:=|\s+)\S*)?  that starts at i.
FlagMatchEnd(flag, s, i) ==
    LET j == i + 2 + Len(flag) IN
    IF j <= Len(s) /\ s[j] = "=" THEN SkipNonSpace(s, j + 1)
    ELSE IF j <= Len(s) /\ IsSpace(s[j]) THEN SkipNonSpace(s, SkipSpace(s, j))
    ELSE j

\* re.sub(r'--%s(?:(?:=|\s+)\S*)?' % flag, '', s): one left-to-right pass
\* over s from index i, dropping each non-overlapping match.
RECURSIVE ReSubFlag(_, _, _)
ReSubFlag(flag, s, i) ==
    IF i > Len(s) THEN <<>>
    ELSE IF StartsAt(s, i, DashDash \o flag)
         THEN ReSubFlag(flag, s, FlagMatchEnd(flag, s, i))
         ELSE <<s[i]>> \o ReSubFlag(flag, s, i + 1)

\* Lines 60-67 with the format string turned round: '%s --%s%s'.
SetFlagsStep_Appending(o, f) ==
    LET value == IF f.value # <<>> THEN <<"=">> \o ShlexQuote(f.value) ELSE <<>>
    IN  ReSubFlag(f.flag, o, 1) \o <<" ">> \o DashDash \o f.flag \o value

\* One iteration of the loop of setFlags (lines 60-67).
SetFlagsStep(o, f) ==
    LET value == IF f.value # <<>> THEN <<"=">> \o ShlexQuote(f.value) ELSE <<>>
    IN  DashDash \o f.flag \o value \o <<" ">> \o ReSubFlag(f.flag, o, 1)

GPG_OPTS == "PASSWORD_STORE_GPG_OPTS"

\* env.get('PASSWORD_STORE_GPG_OPTS', '')
EnvGetOpts(e) == IF GPG_OPTS \in DOMAIN e THEN e[GPG_OPTS] ELSE <<>>

\* env[key] = val
EnvSet(e, key, val) ==
    [k \in DOMAIN e \cup {key} |-> IF k = key THEN val ELSE e[k]]

RECURSIVE SetFlagsLoop(_, _)
SetFlagsLoop(o, fs) ==
    IF fs = <<>> THEN o ELSE SetFlagsLoop(SetFlagsStep(o, Head(fs)), Tail(fs))

\* setFlags(env, flags) as one call: the environment it leaves behind.
SetFlags(e, fs) == EnvSet(e, GPG_OPTS, Strip(SetFlagsLoop(EnvGetOpts(e), fs)))

-----------------------------------------------------------------------------
(* cleanStderr (passff.py 71-109).                                         *)

IsDigit(c) == c \in {"0", "1", "2", "3", "4", "5", "6", "7", "8", "9"}

DigitVal(c) ==
    CASE c = "0" -> 0 [] c = "1" -> 1 [] c = "2" -> 2 [] c = "3" -> 3
      [] c = "4" -> 4 [] c = "5" -> 5 [] c = "6" -> 6 [] c = "7" -> 7
      [] c = "8" -> 8 [] c = "9" -> 9

\* First index >= i of s that holds no digit: \d*
SkipDigits(s, i) ==
    IF \E j \in i..Len(s) : ~IsDigit(s[j])
    THEN CHOOSE j \in i..Len(s) :
             ~IsDigit(s[j]) /\ \A m \in i..(j - 1) : IsDigit(s[m])
    ELSE IF i > Len(s) THEN i ELSE Len(s) + 1

\* int(ds) for a text of digits
RECURSIVE ParseInt(_)
ParseInt(ds) ==
    IF ds = <<>> THEN 0
    ELSE 10 * ParseInt(SubSeq(ds, 1, Len(ds) - 1)) + DigitVal(ds[Len(ds)])

\* str.split("\n")
RECURSIVE Split(_)
Split(s) ==
    IF \E i \in 1..Len(s) : s[i] = "\n"
    THEN LET i == CHOOSE k \in 1..Len(s) :
                      s[k] = "\n" /\ \A m \in 1..(k - 1) : s[m] # "\n"
         IN  <<SubSeq(s, 1, i - 1)>> \o Split(SubSeq(s, i + 1, Len(s)))
    ELSE <<s>>

CHAN_PREFIX == <<"g", "p", "g", ":", " ", "D", "B", "G", ":", " ", "c", "h", "a", "n", "_">>
ERR_WORD == <<" ", "E", "R", "R", " ">>
GPG_STATUS_PREFIX == <<"[", "G", "N", "U", "P", "G", ":", "]">>
PKDECRYPT_FAILED == <<"E", "R", "R", "O", "R", " ", "p", "k", "d", "e", "c", "r", "y", "p", "t", "_", "f", "a", "i", "l", "e", "d", " ">>
ENC_TO == <<"E", "N", "C", "_", "T", "O">>
BEGIN_DECRYPTION == <<"B", "E", "G", "I", "N", "_", "D", "E", "C", "R", "Y", "P", "T", "I", "O", "N">>
END_DECRYPTION == <<"E", "N", "D", "_", "D", "E", "C", "R", "Y", "P", "T", "I", "O", "N">>
NO_SECKEY == <<"N", "O", "_", "S", "E", "C", "K", "E", "Y">>
DBG_PREFIX == <<"g", "p", "g", ":", " ", "D", "B", "G", ":">>

\* int(m.group(1)) without the mask.
Mask16_Dropped(n) == n

\* int(m.group(1)) & 0xFFFF   (lines 87 and 91)
Mask16(n) == n % 65536

\* The longest text of digits int() converts: the interpreter's default
\* sys.int_info.default_max_str_digits (CPython 3.11 and the security
\* releases of 3.7 to 3.10).  int() raises ValueError on a longer one.
INT_MAX_STR_DIGITS == 4300

\* int(ds) raises ValueError.
IntRaises(ds) == Len(ds) > INT_MAX_STR_DIGITS

\* A failed re.search / re.match (the match object is None).
NoMatch == <<>>

\* CHAN_ERROR_PAT = r'gpg: DBG: chan_\d+ (?:<-|->) ERR (\d+)' matched at i:
\* the index of the first digit of group 1, or 0 when there is no match at i.
ChanMatchAt(s, i) ==
    LET a == i + Len(CHAN_PREFIX)
        b == SkipDigits(s, a)
    IN  IF /\ StartsAt(s, i, CHAN_PREFIX)
           /\ b > a
           /\ StartsAt(s, b, <<" ">>)
           /\ (StartsAt(s, b + 1, <<"<", "-">>) \/ StartsAt(s, b + 1, <<"-", ">">>))
           /\ StartsAt(s, b + 3, ERR_WORD)
           /\ SkipDigits(s, b + 8) > b + 8
        THEN b + 8 ELSE 0

\* re.search(CHAN_ERROR_PAT, line): group 1 of the leftmost match (never
\* empty), or NoMatch.
ChanSearch(line) ==
    IF \E i \in 1..Len(line) : ChanMatchAt(line, i) # 0
    THEN LET i == CHOOSE k \in 1..Len(line) :
                      /\ ChanMatchAt(line, k) # 0
                      /\ \A m \in 1..(k - 1) : ChanMatchAt(line, m) = 0
             g == ChanMatchAt(line, i)
         IN  SubSeq(line, g, SkipDigits(line, g) - 1)
    ELSE NoMatch

\* re.match(GPG_STATUS_PAT, line), GPG_STATUS_PAT = r'\[GNUPG:\](.*)'
StatusMatch(line) == StartsWith(line, GPG_STATUS_PREFIX)

\* ERROR_CODE_PAT = r'(?:ERROR pkdecrypt_failed) (\d+)' matched at i.
PkMatchAt(s, i) ==
    LET g == i + Len(PKDECRYPT_FAILED)
    IN  IF StartsAt(s, i, PKDECRYPT_FAILED) /\ SkipDigits(s, g) > g THEN g ELSE 0

\* re.search(ERROR_CODE_PAT, line): group 1 of the leftmost match (never
\* empty), or NoMatch.
PkSearch(line) ==
    IF \E i \in 1..Len(line) : PkMatchAt(line, i) # 0
    THEN LET i == CHOOSE k \in 1..Len(line) :
                      /\ PkMatchAt(line, k) # 0
                      /\ \A m \in 1..(k - 1) : PkMatchAt(line, m) = 0
             g == PkMatchAt(line, i)
         IN  SubSeq(line, g, SkipDigits(line, g) - 1)
    ELSE NoMatch

\* The branches with the status pattern searched (re.search) instead of
\* matched at the start of the line.
Rule_StatusAnywhere(p, line) ==
    IF ChanSearch(line) # NoMatch THEN "chan"
    ELSE IF Contains(line, GPG_STATUS_PREFIX) THEN "status"
    ELSE IF p # <<>> /\ StartsWith(line, <<" ", " ">>) THEN "cont"
    ELSE "append"

\* The branch of the loop body (lines 85-104) that takes the line.
Rule(p, line) ==
    IF ChanSearch(line) # NoMatch THEN "chan"
    ELSE IF StatusMatch(line) THEN "status"
    ELSE IF p # <<>> /\ StartsWith(line, <<" ", " ">>) THEN "cont"
    ELSE "append"

\* Loop state: the preserve list, error_code, whether `break` was taken, and
\* the exception that left the loop ("none" when there is none).
\* error_code = int(m.group(1)) & 0xFFFF with group 1 = ds (lines 87 and 91).
AssignCode(st, ds) ==
    IF IntRaises(ds) THEN [st EXCEPT !.exc = "ValueError"]
    ELSE [st EXCEPT !.error_code = Mask16(ParseInt(ds))]

\* Lines 86-87 with the line falling through to the append of line 104.
ChanStep_Appending(st, line) ==
    [AssignCode(st, ChanSearch(line)) EXCEPT !.preserve = Append(@, line)]

\* Lines 86-87.
ChanStep(st, line) == AssignCode(st, ChanSearch(line))

\* preserve[:-1] = []
KeepLast(p) == IF p = <<>> THEN <<>> ELSE <<p[Len(p)]>>

\* Lines 88-99 without the NO_SECKEY branch of lines 91-92.
StatusStep_SeckeyIgnored(st, line) ==
    IF PkSearch(line) # NoMatch THEN AssignCode(st, PkSearch(line))
    ELSE IF Contains(line, NO_SECKEY) THEN st
    ELSE IF Contains(line, ENC_TO) THEN [st EXCEPT !.preserve = <<>>]
    ELSE IF Contains(line, BEGIN_DECRYPTION)
        THEN [st EXCEPT !.preserve = KeepLast(st.preserve)]
    ELSE IF Contains(line, END_DECRYPTION) THEN [st EXCEPT !.brk = TRUE]
    ELSE st

\* Lines 88-99 without the break of lines 97-98.
StatusStep_NoBreak(st, line) ==
    IF PkSearch(line) # NoMatch THEN AssignCode(st, PkSearch(line))
    ELSE IF Contains(line, NO_SECKEY) THEN [st EXCEPT !.error_code = 17]
    ELSE IF Contains(line, ENC_TO) THEN [st EXCEPT !.preserve = <<>>]
    ELSE IF Contains(line, BEGIN_DECRYPTION)
        THEN [st EXCEPT !.preserve = KeepLast(st.preserve)]
    ELSE st

\* Lines 88-99 with the ENC_TO branch keeping the last entry as the
\* BEGIN_DECRYPTION branch does.
StatusStep_EncToKeepsLast(st, line) ==
    IF PkSearch(line) # NoMatch THEN AssignCode(st, PkSearch(line))
    ELSE IF Contains(line, NO_SECKEY) THEN [st EXCEPT !.error_code = 17]
    ELSE IF Contains(line, ENC_TO) \/ Contains(line, BEGIN_DECRYPTION)
        THEN [st EXCEPT !.preserve = KeepLast(st.preserve)]
    ELSE IF Contains(line, END_DECRYPTION) THEN [st EXCEPT !.brk = TRUE]
    ELSE st

\* Lines 88-99.
StatusStep(st, line) ==
    IF PkSearch(line) # NoMatch THEN AssignCode(st, PkSearch(line))
    ELSE IF Contains(line, NO_SECKEY) THEN [st EXCEPT !.error_code = 17]
    ELSE IF Contains(line, ENC_TO) THEN [st EXCEPT !.preserve = <<>>]
    ELSE IF Contains(line, BEGIN_DECRYPTION)
        THEN [st EXCEPT !.preserve = KeepLast(st.preserve)]
    ELSE IF Contains(line, END_DECRYPTION) THEN [st EXCEPT !.brk = TRUE]
    ELSE st

\* Lines 100-102.
ContStep(st, line) ==
    [st EXCEPT !.preserve[Len(st.preserve)] = @ \o <<"\n">> \o line]

\* Lines 103-104.
AppendStep(st, line) == [st EXCEPT !.preserve = Append(@, line)]

\* One pass of the loop body over `line`.
CleanStep(st, line) ==
    CASE Rule(st.preserve, line) = "chan"   -> ChanStep(st, line)
      [] Rule(st.preserve, line) = "status" -> StatusStep(st, line)
      [] Rule(st.preserve, line) = "cont"   -> ContStep(st, line)
      [] Rule(st.preserve, line) = "append" -> AppendStep(st, line)

\* Line 107 without its filter.
SelectNotDbg_KeepAll(p) == p

RECURSIVE SelectNotDbg(_)
SelectNotDbg(p) ==
    IF p = <<>> THEN <<>>
    ELSE (IF StartsWith(Head(p), DBG_PREFIX) THEN <<>> ELSE <<Head(p)>>)
         \o SelectNotDbg(Tail(p))

\* Lines 105-109: the returned pair.
CleanResult(st) ==
    [stderr |-> Join(<<"\n">>, SelectNotDbg(st.preserve)),
     error_code |-> st.error_code]

\* The loop of lines 84-104 over ls[i..], stopping at `break` or at an
\* exception.
RECURSIVE CleanLoop(_, _, _)
CleanLoop(st, ls, i) ==
    IF i > Len(ls) \/ st.brk \/ st.exc # "none" THEN st
    ELSE CleanLoop(CleanStep(st, ls[i]), ls, i + 1)

CleanInit == [preserve |-> <<>>, error_code |-> 0, brk |-> FALSE, exc |-> "none"]

\* The exception cleanStderr(stderr) raises, or "none".
CleanExc(s) == CleanLoop(CleanInit, Split(s), 1).exc

\* cleanStderr(stderr) as one call that returns.
CleanStderr(s) == CleanResult(CleanLoop(CleanInit, Split(s), 1))

-----------------------------------------------------------------------------
(* Characters and bytes.  A character outside ASCII is written "U+xxxx"    *)
(* (so is the grave accent, U+0060); the model's alphabet holds printable  *)
(* ASCII, tab, newline and U+00e9.                                         *)

AsciiPrintable ==
    <<" ", "!", "\"", "#", "$", "%", "&", "'", "(", ")", "*", "+", ",", "-",
      ".", "/", "0", "1", "2", "3", "4", "5", "6", "7", "8", "9", ":", ";",
      "<", "=", ">", "?", "@", "A", "B", "C", "D", "E", "F", "G", "H", "I",
      "J", "K", "L", "M", "N", "O", "P", "Q", "R", "S", "T", "U", "V", "W",
      "X", "Y", "Z", "[", "\\", "]", "^", "_", "U+0060", "a", "b", "c", "d", "e",
      "f", "g", "h", "i", "j", "k", "l", "m", "n", "o", "p", "q", "r", "s",
      "t", "u", "v", "w", "x", "y", "z", "{", "|", "}", "~">>

\* A code point the alphabet does not hold.
Unmodelled == "U+????"

\* ord(c)
Ord(c) ==
    CASE c = "\n" -> 10
      [] c = "\t" -> 9
      [] c = "U+00e9" -> 233
      [] OTHER -> 31 + (CHOOSE k \in 1..Len(AsciiPrintable) : AsciiPrintable[k] = c)

\* chr(n)
Chr(n) ==
    CASE n = 10 -> "\n"
      [] n = 9 -> "\t"
      [] n = 233 -> "U+00e9"
      [] n \in 32..126 -> AsciiPrintable[n - 31]
      [] OTHER -> Unmodelled

HexDigits ==
    <<"0", "1", "2", "3", "4", "5", "6", "7", "8", "9", "a", "b", "c", "d", "e", "f">>

IsHex(c) ==
    c \in {"0", "1", "2", "3", "4", "5", "6", "7", "8", "9",
           "a", "b", "c", "d", "e", "f", "A", "B", "C", "D", "E", "F"}

HexVal(c) ==
    CASE IsDigit(c) -> DigitVal(c)
      [] c \in {"a", "A"} -> 10 [] c \in {"b", "B"} -> 11 [] c \in {"c", "C"} -> 12
      [] c \in {"d", "D"} -> 13 [] c \in {"e", "E"} -> 14 [] c \in {"f", "F"} -> 15

\* '{0:04x}'.format(n)
Hex4(n) ==
    <<HexDigits[((n \div 4096) % 16) + 1], HexDigits[((n \div 256) % 16) + 1],
      HexDigits[((n \div 16) % 16) + 1], HexDigits[(n % 16) + 1]>>

\* Concatenation of the texts ss[a..b], halving the range.
RECURSIVE ConcatRange(_, _, _)
ConcatRange(ss, a, b) ==
    IF a > b THEN <<>>
    ELSE IF a = b THEN ss[a]
    ELSE LET m == (a + b) \div 2
         IN  ConcatRange(ss, a, m) \o ConcatRange(ss, m + 1, b)

\* The texts f[1], ..., f[n] of a sequence of texts, joined end to end.
Flatten(ss) == ConcatRange(ss, 1, Len(ss))

\* str.encode("utf-8") / bytes(s, "UTF-8"), for code points below U+0800.
Utf8Encode(s) ==
    Flatten([k \in 1..Len(s) |->
                LET cp == Ord(s[k])
                IN  IF cp < 128 THEN <<cp>>
                    ELSE <<192 + (cp \div 64), 128 + (cp % 64)>>])

IsLead2(b) == b \in 194..223
IsTrail(b) == b \in 128..191

\* bytes.decode("utf-8"): the text, or the flag `bad` for a
\* UnicodeDecodeError.  Covers one- and two-byte sequences: every byte is
\* ASCII, a lead byte followed by a trail byte, or a trail byte after a lead.
Utf8Decode(bs) ==
    IF \A i \in 1..Len(bs) :
          \/ bs[i] < 128
          \/ IsLead2(bs[i]) /\ i < Len(bs) /\ IsTrail(bs[i + 1])
          \/ IsTrail(bs[i]) /\ i > 1 /\ IsLead2(bs[i - 1])
    THEN [bad |-> FALSE,
          text |-> Flatten([i \in 1..Len(bs) |->
                      IF bs[i] < 128 THEN <<Chr(bs[i])>>
                      ELSE IF IsLead2(bs[i])
                          THEN <<Chr((bs[i] - 192) * 64 + (bs[i + 1] - 128))>>
                      ELSE <<>>])]
    ELSE [bad |-> TRUE, text |-> <<>>]

-----------------------------------------------------------------------------
(* JSON values, json.dumps and json.loads.  A value carries its Python     *)
(* type: str (text), int, list (sequence), dict (ordered key/value pairs). *)

JStr(s)   == [t |-> "str", str |-> s]
JInt(n)   == [t |-> "int", int |-> n]
JList(xs) == [t |-> "list", list |-> xs]
JDict(kv) == [t |-> "dict", dict |-> kv]
JNone     == [t |-> "NoneType"]

\* len(x) for a str, a list or a dict
PyLen(x) ==
    CASE x.t = "str"  -> Len(x.str)
      [] x.t = "list" -> Len(x.list)
      [] x.t = "dict" -> Len(x.dict)

IsStr(x) == x.t = "str"

\* x == "text" on Python values
StrEq(x, s) == IsStr(x) /\ x.str = s

\* str(n) for an integer
RECURSIVE NatToText(_)
NatToText(n) ==
    IF n < 10 THEN <<HexDigits[n + 1]>>
    ELSE NatToText(n \div 10) \o <<HexDigits[(n % 10) + 1]>>

IntToText(n) == IF n < 0 THEN <<"-">> \o NatToText(0 - n) ELSE NatToText(n)

\* json.encoder.py_encode_basestring (ensure_ascii=False), without the
\* quotes: a character outside ASCII is left as it is.
EscapeAscii_Raw(s) ==
    Flatten([k \in 1..Len(s) |->
                LET c == s[k]
                IN  CASE c = "\"" -> <<"\\", "\"">>
                      [] c = "\\" -> <<"\\", "\\">>
                      [] c = "\n" -> <<"\\", "n">>
                      [] c = "\t" -> <<"\\", "t">>
                      [] OTHER -> <<c>>])

\* json.encoder.py_encode_basestring_ascii, without the quotes.
EscapeAscii(s) ==
    Flatten([k \in 1..Len(s) |->
                LET c == s[k]
                IN  CASE c = "\"" -> <<"\\", "\"">>
                      [] c = "\\" -> <<"\\", "\\">>
                      [] c = "\n" -> <<"\\", "n">>
                      [] c = "\t" -> <<"\\", "t">>
                      [] Ord(c) > 126 -> <<"\\", "u">> \o Hex4(Ord(c))
                      [] OTHER -> <<c>>])

\* json.dumps(x): separators (', ', ': '), ensure_ascii=True.
RECURSIVE Dumps(_)
Dumps(x) ==
    CASE x.t = "str"  -> <<"\"">> \o EscapeAscii(x.str) \o <<"\"">>
      [] x.t = "int"  -> IntToText(x.int)
      [] x.t = "list" ->
            <<"[">> \o Join(<<",", " ">>, [k \in 1..Len(x.list) |-> Dumps(x.list[k])])
                    \o <<"]">>
      [] x.t = "dict" ->
            <<"{">> \o Join(<<",", " ">>,
                           [k \in 1..Len(x.dict) |->
                               <<"\"">> \o EscapeAscii(x.dict[k].key) \o <<"\"", ":", " ">>
                               \o Dumps(x.dict[k].val)])
                    \o <<"}">>

ParseFail == [ok |-> FALSE, v |-> JNone, i |-> 0]
ParseOk(v, i) == [ok |-> TRUE, v |-> v, i |-> i]

\* dict[key] = val on the ordered pairs of a dict
DictPut(kv, key, val) ==
    IF \E k \in 1..Len(kv) : kv[k].key = key
    THEN [k \in 1..Len(kv) |->
             IF kv[k].key = key THEN [key |-> key, val |-> val] ELSE kv[k]]
    ELSE Append(kv, [key |-> key, val |-> val])

\* json.decoder.scanstring from index i (just after the opening quote).
RECURSIVE ParseString(_, _, _)
ParseString(s, i, acc) ==
    IF i > Len(s) THEN ParseFail
    ELSE IF s[i] = "\"" THEN ParseOk(JStr(acc), i + 1)
    ELSE IF s[i] = "\\" THEN
        IF i + 1 > Len(s) THEN ParseFail
        ELSE IF s[i + 1] \in {"\"", "\\", "/"}
            THEN ParseString(s, i + 2, Append(acc, s[i + 1]))
        ELSE IF s[i + 1] = "n" THEN ParseString(s, i + 2, Append(acc, "\n"))
        ELSE IF s[i + 1] = "t" THEN ParseString(s, i + 2, Append(acc, "\t"))
        ELSE IF s[i + 1] \in {"b", "f", "r"}
            THEN ParseString(s, i + 2, Append(acc, Unmodelled))
        ELSE IF /\ s[i + 1] = "u"
                /\ i + 5 <= Len(s)
                /\ \A k \in 2..5 : IsHex(s[i + k])
            THEN ParseString(s, i + 6,
                     Append(acc, Chr(4096 * HexVal(s[i + 2]) + 256 * HexVal(s[i + 3])
                                     + 16 * HexVal(s[i + 4]) + HexVal(s[i + 5]))))
        ELSE ParseFail
    ELSE IF Ord(s[i]) < 32 THEN ParseFail
    ELSE ParseString(s, i + 1, Append(acc, s[i]))

\* NUMBER_RE at index i, integers only: -?(?:0|[1-9]\d*)
ParseNumber(s, i) ==
    LET neg == s[i] = "-"
        a == IF neg THEN i + 1 ELSE i
        b == IF a <= Len(s) /\ s[a] = "0" THEN a + 1 ELSE SkipDigits(s, a)
    IN  IF b = a THEN ParseFail
        ELSE ParseOk(JInt((IF neg THEN -1 ELSE 1) * ParseInt(SubSeq(s, a, b - 1))), b)

\* json.scanner.py_make_scanner._scan_once at index i, with JSONArray and
\* JSONObject.  The literals null, true, false and floats are not modelled.
RECURSIVE ParseValue(_, _)
RECURSIVE ParseArrayItems(_, _, _)
RECURSIVE ParseObjectItems(_, _, _)
ParseValue(s, i) ==
    IF i > Len(s) THEN ParseFail
    ELSE IF s[i] = "\"" THEN ParseString(s, i + 1, <<>>)
    ELSE IF s[i] = "[" THEN
        LET j == SkipSpace(s, i + 1)
        IN  IF j <= Len(s) /\ s[j] = "]" THEN ParseOk(JList(<<>>), j + 1)
            ELSE ParseArrayItems(s, j, <<>>)
    ELSE IF s[i] = "{" THEN
        LET j == SkipSpace(s, i + 1)
        IN  IF j <= Len(s) /\ s[j] = "}" THEN ParseOk(JDict(<<>>), j + 1)
            ELSE ParseObjectItems(s, j, <<>>)
    ELSE IF s[i] = "-" \/ IsDigit(s[i]) THEN ParseNumber(s, i)
    ELSE ParseFail

ParseArrayItems(s, i, acc) ==
    LET r == ParseValue(s, i)
        j == SkipSpace(s, r.i)
    IN  IF ~r.ok \/ j > Len(s) THEN ParseFail
        ELSE IF s[j] = "]" THEN ParseOk(JList(Append(acc, r.v)), j + 1)
        ELSE IF s[j] = "," THEN ParseArrayItems(s, SkipSpace(s, j + 1), Append(acc, r.v))
        ELSE ParseFail

ParseObjectItems(s, i, acc) ==
    IF i > Len(s) \/ s[i] # "\"" THEN ParseFail
    ELSE LET k == ParseString(s, i + 1, <<>>)
             c == SkipSpace(s, k.i)
         IN  IF ~k.ok \/ c > Len(s) \/ s[c] # ":" THEN ParseFail
             ELSE LET r == ParseValue(s, SkipSpace(s, c + 1))
                      j == SkipSpace(s, r.i)
                  IN  IF ~r.ok \/ j > Len(s) THEN ParseFail
                      ELSE IF s[j] = "}"
                          THEN ParseOk(JDict(DictPut(acc, k.v.str, r.v)), j + 1)
                      ELSE IF s[j] = ","
                          THEN ParseObjectItems(s, SkipSpace(s, j + 1),
                                                DictPut(acc, k.v.str, r.v))
                      ELSE ParseFail

\* json.loads(s): ok is FALSE for a JSONDecodeError.
Loads(s) ==
    LET r == ParseValue(s, SkipSpace(s, 1))
    IN  IF r.ok /\ SkipSpace(s, r.i) > Len(s) THEN r ELSE ParseFail

-----------------------------------------------------------------------------
(* The framing codec (passff.py 33-54).                                    *)

\* struct.pack('@I', n): four bytes in the host's byte order.
Pack(n, order) ==
    LET le == <<n % 256, (n \div 256) % 256, (n \div 65536) % 256,
                (n \div 16777216) % 256>>
    IN  IF order = "little" THEN le ELSE <<le[4], le[3], le[2], le[1]>>

\* struct.unpack('@I', raw)[0] for four bytes: an unsigned 32-bit value,
\* held as its two 16-bit halves.
Unpack(raw, order) ==
    IF order = "little"
    THEN [hi |-> raw[3] + 256 * raw[4], lo |-> raw[1] + 256 * raw[2]]
    ELSE [hi |-> raw[2] + 256 * raw[1], lo |-> raw[4] + 256 * raw[3]]

\* n < m for an unpacked value n and a length m.
U32Less(n, m) ==
    \/ n.hi < m \div 65536
    \/ n.hi = m \div 65536 /\ n.lo < m % 65536

\* min(n, len(bs)) for an unpacked value n: the bytes buffer.read(n) yields.
Available(bs, n) == IF U32Less(n, Len(bs)) THEN n.hi * 65536 + n.lo ELSE Len(bs)

\* buffer.read(n) for a small n: the first n bytes, or all when fewer are left.
ReadBytes(bs, n) == SubSeq(bs, 1, IF n < Len(bs) THEN n ELSE Len(bs))

\* What is left of the stream after buffer.read(n).
AfterRead(bs, n) == SubSeq(bs, (IF n < Len(bs) THEN n ELSE Len(bs)) + 1, Len(bs))

\* getMessage() on the input `bs` (lines 33-40): sys.exit(0), an uncaught
\* exception, or the decoded message with the input left unread.
GetMessageOn(bs, order) ==
    LET rawLength == ReadBytes(bs, 4)
        body == AfterRead(bs, 4)
    IN  IF Len(rawLength) = 0
            THEN [kind |-> "exit", exc |-> "SystemExit", value |-> JNone, rest |-> bs]
        ELSE IF Len(rawLength) < 4
            THEN [kind |-> "raise", exc |-> "struct.error", value |-> JNone, rest |-> body]
        ELSE LET messageLength == Unpack(rawLength, order)
                 message == Utf8Decode(ReadBytes(body, Available(body, messageLength)))
                 rest == AfterRead(body, Available(body, messageLength))
             IN  IF message.bad
                     THEN [kind |-> "raise", exc |-> "UnicodeDecodeError",
                           value |-> JNone, rest |-> rest]
                 ELSE IF ~Loads(message.text).ok
                     THEN [kind |-> "raise", exc |-> "JSONDecodeError",
                           value |-> JNone, rest |-> rest]
                 ELSE [kind |-> "return", exc |-> "none",
                       value |-> Loads(message.text).v, rest |-> rest]

\* encodeMessage(messageContent) (lines 43-47).
EncodeMessage(content, order) ==
    LET encodedContent == Dumps(content)
    IN  [length |-> Pack(Len(encodedContent), order), content |-> encodedContent]

\* The bytes sendMessage(encodedMessage) puts on stdout (lines 50-54).
SendMessageBytes(encoded) == encoded.length \o Utf8Encode(encoded.content)

-----------------------------------------------------------------------------
(* The command translator (passff.py 115-145).                             *)

COMMAND == JStr(<<"p", "a", "s", "s">>)
COMMAND_ARGS == <<>>
VERSION == <<"_", "V", "E", "R", "S", "I", "O", "N", "H", "O", "L", "D", "E", "R", "_">>

W_show == JStr(<<"s", "h", "o", "w">>)
W_insert == JStr(<<"i", "n", "s", "e", "r", "t">>)
W_generate == JStr(<<"g", "e", "n", "e", "r", "a", "t", "e">>)
W_grepMetaUrls == JStr(<<"g", "r", "e", "p", "M", "e", "t", "a", "U", "r", "l", "s">>)
W_otp == JStr(<<"o", "t", "p">>)
W_grep == JStr(<<"g", "r", "e", "p">>)
W_iE == JStr(<<"-", "i", "E">>)
W_m == JStr(<<"-", "m">>)
W_n == JStr(<<"-", "n">>)
W_dashdash == JStr(DashDash)
W_slash == JStr(<<"/">>)

\* The outcome of a piece of code that may raise: exc names the exception.
Raise(e) ==
    [exc |-> e, opt_args |-> <<>>, pos_args |-> <<>>, std_input |-> JNone]
Args(o, p, i) ==
    [exc |-> "none", opt_args |-> o, pos_args |-> p, std_input |-> i]

\* x[k] for k counted from 0 on a list or a str within range.
Item(x, k) == IF x.t = "str" THEN JStr(<<x.str[k + 1]>>) ELSE x.list[k + 1]

\* "/" + (key[1:] if key[0] == "/" else key)   (lines 138 and 143)
NormalizeKey(key) ==
    IF key.t = "int" THEN Raise("TypeError")
    ELSE IF key.t = "dict" THEN Raise("KeyError")
    ELSE IF PyLen(key) = 0 THEN Raise("IndexError")
    ELSE IF key.t = "list" THEN Raise("TypeError")
    ELSE IF key.str[1] = "/"
        THEN Args(<<>>, <<JStr(<<"/">> \o Tail(key.str))>>, JNone)
    ELSE Args(<<>>, <<JStr(<<"/">> \o key.str)>>, JNone)

\* '|'.join(names): the names of a str are its characters, of a dict its keys.
JoinNames(names) ==
    IF names.t = "int" THEN Raise("TypeError")
    ELSE IF names.t = "list" /\ \E k \in 1..Len(names.list) : ~IsStr(names.list[k])
        THEN Raise("TypeError")
    ELSE LET parts == [k \in 1..PyLen(names) |->
                          CASE names.t = "str"  -> <<names.str[k]>>
                            [] names.t = "dict" -> names.dict[k].key
                            [] names.t = "list" -> names.list[k].str]
         IN  Args(<<>>,
                  <<JStr(<<"^", "(">> \o Join(<<"|">>, parts) \o <<")", ":">>)>>,
                  JNone)

\* Lines 115-145 on the decoded message m.
Translate(m) ==
    IF m.t = "int" THEN Raise("TypeError")
    ELSE IF PyLen(m) = 0 THEN Args(<<W_show>>, <<W_slash>>, JNone)
    ELSE IF m.t = "dict" THEN Raise("KeyError")
    ELSE IF StrEq(Item(m, 0), W_insert.str) THEN
        IF PyLen(m) < 3 THEN Raise("IndexError")
        ELSE Args(<<W_insert, W_m>>, <<Item(m, 1)>>, Item(m, 2))
    ELSE IF StrEq(Item(m, 0), W_generate.str) THEN
        IF PyLen(m) < 3 THEN Raise("IndexError")
        ELSE Args(<<W_generate>>
                      \o (IF \E k \in 4..PyLen(m) : StrEq(m.list[k], W_n.str)
                          THEN <<W_n>> ELSE <<>>),
                  <<Item(m, 1), Item(m, 2)>>, JNone)
    ELSE IF StrEq(Item(m, 0), W_grepMetaUrls.str) /\ PyLen(m) = 2 THEN
        LET r == JoinNames(Item(m, 1))
        IN  IF r.exc # "none" THEN r ELSE Args(<<W_grep, W_iE>>, r.pos_args, JNone)
    ELSE IF StrEq(Item(m, 0), W_otp.str) /\ PyLen(m) = 2 THEN
        LET r == NormalizeKey(Item(m, 1))
        IN  IF r.exc # "none" THEN r ELSE Args(<<W_otp>>, r.pos_args, JNone)
    ELSE
        LET r == NormalizeKey(Item(m, 0))
        IN  IF r.exc # "none" THEN r ELSE Args(<<W_show>>, r.pos_args, JNone)

\* bool(x)
Truthy(x) ==
    CASE x.t = "NoneType" -> FALSE
      [] x.t = "int" -> x.int # 0
      [] OTHER -> PyLen(x) > 0

JBytes(bs) == [t |-> "bytes", bytes |-> bs]

\* bytes(std_input, CHARSET) if std_input else None   (line 158)
ProcInput(x) ==
    IF ~Truthy(x) THEN [exc |-> "none", input |-> JNone]
    ELSE IF IsStr(x) THEN [exc |-> "none", input |-> JBytes(Utf8Encode(x.str))]
    ELSE [exc |-> "TypeError", input |-> JNone]

\* Line 156 without the '--' element.
Cmd_NoSeparator(o, p) == <<COMMAND>> \o o \o COMMAND_ARGS \o p

\* [COMMAND] + opt_args + ['--'] + pos_args   (line 156)
Cmd(o, p) == <<COMMAND>> \o o \o COMMAND_ARGS \o <<W_dashdash>> \o p

-----------------------------------------------------------------------------
(* The environment composer (passff.py 147-153).                           *)

TREE_CHARSET_VALUE == <<"I", "S", "O", "-", "8", "8", "5", "9", "-", "1">>
PATH_VALUE ==
    <<"/", "u", "s", "r", "/", "l", "o", "c", "a", "l", "/", "b", "i", "n", ":",
      "/", "u", "s", "r", "/", "b", "i", "n", ":", "/", "b", "i", "n", ":",
      "/", "u", "s", "r", "/", "s", "b", "i", "n", ":", "/", "s", "b", "i", "n">>

\* os.path.expanduser('~') when HOME is unset: the password database's entry.
PW_HOME == <<"/", "r", "o", "o", "t">>

\* Lines 148-153 with the loop of lines 151-152 keeping a value the host has
\* set.
ComposeEnv_HostWins(e) ==
    LET e1 == IF "HOME" \in DOMAIN e THEN e ELSE EnvSet(e, "HOME", PW_HOME)
        e2 == IF "TREE_CHARSET" \in DOMAIN e1 THEN e1
              ELSE EnvSet(e1, "TREE_CHARSET", TREE_CHARSET_VALUE)
        e3 == IF "PATH" \in DOMAIN e2 THEN e2 ELSE EnvSet(e2, "PATH", PATH_VALUE)
    IN  SetFlags(e3, InjectedFlags)

\* Lines 148-153.
ComposeEnv(e) ==
    LET e1 == IF "HOME" \in DOMAIN e THEN e ELSE EnvSet(e, "HOME", PW_HOME)
        e2 == EnvSet(e1, "TREE_CHARSET", TREE_CHARSET_VALUE)
        e3 == EnvSet(e2, "PATH", PATH_VALUE)
    IN  SetFlags(e3, InjectedFlags)

-----------------------------------------------------------------------------
(* The response (passff.py 168-177).                                       *)

\* The dict passed to encodeMessage, or the exception of a failed decode or
\* of cleanStderr.
Response(p) ==
    LET decoded_stderr == Utf8Decode(p.stderr)
        decoded_stdout == Utf8Decode(p.stdout)
        c == CleanStderr(decoded_stderr.text)
    IN  IF decoded_stderr.bad
        THEN [exc |-> "UnicodeDecodeError", content |-> JNone]
        ELSE IF CleanExc(decoded_stderr.text) # "none"
        THEN [exc |-> CleanExc(decoded_stderr.text), content |-> JNone]
        ELSE IF decoded_stdout.bad
        THEN [exc |-> "UnicodeDecodeError", content |-> JNone]
        ELSE [exc |-> "none",
              content |-> JDict(<<
                  [key |-> <<"e", "x", "i", "t", "C", "o", "d", "e">>,
                   val |-> JInt(p.returncode)],
                  [key |-> <<"s", "t", "d", "o", "u", "t">>,
                   val |-> JStr(decoded_stdout.text)],
                  [key |-> <<"s", "t", "d", "e", "r", "r">>,
                   val |-> JStr(c.stderr)],
                  [key |-> <<"e", "r", "r", "o", "r", "C", "o", "d", "e">>,
                   val |-> JInt(c.error_code)],
                  [key |-> <<"v", "e", "r", "s", "i", "o", "n">>,
                   val |-> JStr(VERSION)] >>)]

-----------------------------------------------------------------------------
(* Values the variables of a component hold while another one is run.      *)

EmptyEnv == [k \in {} |-> <<>>]

\* No child process has been started.
NoChild ==
    [state |-> "none", argv |-> <<>>, stdin |-> [from |-> "none", bytes |-> <<>>],
     env |-> EmptyEnv]

IdleProc  == exit_status = "none" /\ error = "none"
IdleIO    == stdin = <<>> /\ byteorder = "little" /\ stdout_buf = <<>>
IdleMain  ==
    /\ receivedMessage = JNone /\ opt_args = <<>> /\ pos_args = <<>>
    /\ std_input = JNone /\ cmd = <<>> /\ proc_input = JNone
    /\ child = NoChild /\ proc = None
IdleFlags == opts = <<>> /\ flags = <<>>
IdleClean ==
    /\ stderr = <<>> /\ lines = <<>> /\ idx = 0 /\ preserve = <<>>
    /\ error_code = 0 /\ cleaned = None
IdleCodec == messageContent = JNone /\ encodedMessage = None

\* All sequences over S of length 0..n.
SeqsUpTo(S, n) == UNION {[1..k -> S] : k \in 0..n}

-----------------------------------------------------------------------------
(* setFlags run on its own: the host's option string is any concatenation  *)
(* of up to MaxFrags of these fragments, or the variable is unset.         *)

HostFragments ==
    { DashDash,
      <<"d", "e", "b", "u", "g">>,
      <<"-", "-", "s", "t", "a", "t", "u", "s", "-", "f", "d">>,
      <<"-", "-", "d", "e", "b", "u", "g">>,
      <<"-", "-", "a", "r", "m", "o", "r">>,
      <<"-", "l", "e", "v", "e", "l">>,
      <<"=">>, <<" ">>, <<"1">> }

HostOptStrings == {Concat(fs) : fs \in SeqsUpTo(HostFragments, MaxFrags)}

HOME_VALUE == <<"/", "h">>

HostEnvsFor(optStrings) ==
    {[k \in {"HOME"} |-> HOME_VALUE]}
    \cup {[k \in {"HOME", GPG_OPTS} |-> IF k = "HOME" THEN HOME_VALUE ELSE o] :
            o \in optStrings}

InitFlags ==
    /\ pc = "setFlags"
    /\ environ \in HostEnvsFor(HostOptStrings)
    /\ env = environ
    /\ IdleProc /\ IdleIO /\ IdleMain /\ IdleFlags /\ IdleClean /\ IdleCodec

\* Line 58 and the start of the loop of line 59.
SetFlagsEnter ==
    /\ pc = "setFlags"
    /\ opts' = EnvGetOpts(env)
    /\ flags' = InjectedFlags
    /\ pc' = "setFlags_loop"
    /\ UNCHANGED <<environ, env, procVars, ioVars, mainVars, cleanVars, codecVars>>

\* Lines 59-67: one iteration.
SetFlagsIter ==
    /\ pc = "setFlags_loop"
    /\ flags # <<>>
    /\ opts' = SetFlagsStep(opts, Head(flags))
    /\ flags' = Tail(flags)
    /\ UNCHANGED <<pc, environ, env, procVars, ioVars, mainVars, cleanVars, codecVars>>

\* Line 68.
SetFlagsStore ==
    /\ pc = "setFlags_loop"
    /\ flags = <<>>
    /\ env' = EnvSet(env, GPG_OPTS, Strip(opts))
    /\ pc' = "setFlags_done"
    /\ UNCHANGED <<environ, flagVars, procVars, ioVars, mainVars, cleanVars, codecVars>>

NextFlags == SetFlagsEnter \/ SetFlagsIter \/ SetFlagsStore

SpecFlags == InitFlags /\ [][NextFlags]_vars

-----------------------------------------------------------------------------
(* cleanStderr run on its own, one line of the loop per step: the stream   *)
(* is up to MaxLines of these lines joined by newlines.                    *)

StreamLines ==
    { CHAN_PREFIX \o <<"3", " ", "<", "-">> \o ERR_WORD \o <<"9", "9">>,
      CHAN_PREFIX \o <<"1", "0", " ", "-", ">">> \o ERR_WORD \o <<"6", "5", "5", "4", "7">>,
      <<" ", " ">> \o CHAN_PREFIX \o <<"3", " ", "<", "-">> \o ERR_WORD \o <<"1", "1">>,
      GPG_STATUS_PREFIX \o <<" ">> \o ENC_TO \o <<" ", "k">>,
      GPG_STATUS_PREFIX \o <<" ">> \o NO_SECKEY \o <<" ", "k">>,
      GPG_STATUS_PREFIX \o <<" ">> \o BEGIN_DECRYPTION,
      GPG_STATUS_PREFIX \o <<" ">> \o END_DECRYPTION,
      GPG_STATUS_PREFIX \o <<" ">> \o PKDECRYPT_FAILED \o <<"8", "3", "8", "8", "6", "1", "7", "9">>,
      GPG_STATUS_PREFIX \o <<" ", "K", "E", "Y">>,
      <<" ", " ">> \o GPG_STATUS_PREFIX \o <<" ">> \o ENC_TO \o <<" ", "k">>,
      <<"g", "p", "g", ":", " ", "f", "a", "i", "l", "e", "d">>,
      <<" ", " ", "n", "o", " ", "k", "e", "y">>,
      DBG_PREFIX \o <<" ", "x">> }

Streams == {Join(<<"\n">>, ls) : ls \in SeqsUpTo(StreamLines, MaxLines)}

\* Lines 81-84, up to the first pass of the loop.
InitClean ==
    /\ pc = "clean_loop"
    /\ stderr \in Streams
    /\ lines = Split(stderr)
    /\ idx = 0
    /\ preserve = <<>>
    /\ error_code = 0
    /\ cleaned = None
    /\ environ = EmptyEnv /\ env = EmptyEnv
    /\ IdleProc /\ IdleIO /\ IdleMain /\ IdleFlags /\ IdleCodec

LoopState ==
    [preserve |-> preserve, error_code |-> error_code, brk |-> FALSE,
     exc |-> "none"]

\* The loop body (lines 85-104) run on the next line.
CleanLine ==
    /\ LET st == CleanStep(LoopState, lines[idx + 1])
       IN  /\ preserve' = st.preserve
           /\ error_code' = st.error_code
           /\ pc' = IF st.exc # "none" THEN "clean_raised"
                    ELSE IF st.brk THEN "clean_break" ELSE "clean_loop"
           /\ error' = IF st.exc # "none" THEN st.exc ELSE error
    /\ idx' = idx + 1
    /\ UNCHANGED <<stderr, lines, cleaned, environ, env, exit_status, ioVars,
                   mainVars, flagVars, codecVars>>

\* The next line of the loop is taken by branch `rule`.
NextLineTakes(rule) ==
    /\ pc = "clean_loop"
    /\ idx < Len(lines)
    /\ Rule(preserve, lines[idx + 1]) = rule

\* Lines 85-87.
CleanChan ==
    /\ NextLineTakes("chan")
    /\ CleanLine

\* Lines 88-99.
CleanStatus ==
    /\ NextLineTakes("status")
    /\ CleanLine

\* Lines 100-102.
CleanCont ==
    /\ NextLineTakes("cont")
    /\ CleanLine

\* Lines 103-104.
CleanAppend ==
    /\ NextLineTakes("append")
    /\ CleanLine

\* Lines 105-109, after the loop ran out of lines or took `break`.
CleanReturn ==
    /\ \/ pc = "clean_loop" /\ idx = Len(lines)
       \/ pc = "clean_break"
    /\ cleaned' = CleanResult(LoopState)
    /\ pc' = "clean_done"
    /\ UNCHANGED <<stderr, lines, idx, preserve, error_code, environ, env,
                   procVars, ioVars, mainVars, flagVars, codecVars>>

NextClean == CleanChan \/ CleanStatus \/ CleanCont \/ CleanAppend \/ CleanReturn

SpecClean == InitClean /\ [][NextClean]_vars

\* Streams of at most MaxLongLines lines.
MaxLongLines == 2

\* One digit more than int() converts.
LongDigits == [i \in 1..(INT_MAX_STR_DIGITS + 1) |-> "1"]

\* Lines of gpg output, two of them with a code of LongDigits.
LongStreamLines ==
    { CHAN_PREFIX \o <<"3", " ", "<", "-">> \o ERR_WORD \o LongDigits,
      GPG_STATUS_PREFIX \o <<" ">> \o PKDECRYPT_FAILED \o LongDigits,
      CHAN_PREFIX \o <<"3", " ", "<", "-">> \o ERR_WORD \o <<"9", "9">>,
      GPG_STATUS_PREFIX \o <<" ">> \o END_DECRYPTION,
      <<"g", "p", "g", ":", " ", "f", "a", "i", "l", "e", "d">>,
      <<" ", " ", "n", "o", " ", "k", "e", "y">> }

LongStreams == {Join(<<"\n">>, ls) : ls \in SeqsUpTo(LongStreamLines, MaxLongLines)}

\* Lines 81-84 on a stream of LongStreams.
InitCleanLong ==
    /\ pc = "clean_loop"
    /\ stderr \in LongStreams
    /\ lines = Split(stderr)
    /\ idx = 0
    /\ preserve = <<>>
    /\ error_code = 0
    /\ cleaned = None
    /\ environ = EmptyEnv /\ env = EmptyEnv
    /\ IdleProc /\ IdleIO /\ IdleMain /\ IdleFlags /\ IdleCodec

SpecCleanLong == InitCleanLong /\ [][NextClean]_vars

-----------------------------------------------------------------------------
(* The bridge process (passff.py 112-177): one request per process.        *)

\* The interpreter ends on an uncaught exception: traceback, status 1.
Crash(e) ==
    /\ pc' = "exited"
    /\ exit_status' = 1
    /\ error' = e

\* Line 114 with the test of line 36 left out: the empty prefix goes to
\* struct.unpack, which raises.
GetMessageExit_Unpacks ==
    /\ pc = "getMessage"
    /\ GetMessageOn(stdin, byteorder).kind = "exit"
    /\ Crash("struct.error")
    /\ UNCHANGED <<environ, ioVars, env, mainVars, flagVars, cleanVars, codecVars>>

\* Line 114, getMessage takes sys.exit(0) (line 37).
GetMessageExit ==
    /\ pc = "getMessage"
    /\ GetMessageOn(stdin, byteorder).kind = "exit"
    /\ pc' = "exited"
    /\ exit_status' = 0
    /\ UNCHANGED <<error, environ, ioVars, env, mainVars, flagVars, cleanVars, codecVars>>

\* Line 114 inside a handler that takes an undecodable frame for the empty
\* request.
GetMessageRaise_Swallowed ==
    /\ pc = "getMessage"
    /\ LET r == GetMessageOn(stdin, byteorder)
       IN  /\ r.kind = "raise"
           /\ stdin' = r.rest
    /\ receivedMessage' = JList(<<>>)
    /\ pc' = "dispatch"
    /\ UNCHANGED <<procVars, environ, byteorder, stdout_buf, env, opt_args,
                   pos_args, std_input, cmd, proc_input, child, proc, flagVars,
                   cleanVars, codecVars>>

\* Line 114, getMessage raises (lines 38-40).
GetMessageRaise ==
    /\ pc = "getMessage"
    /\ LET r == GetMessageOn(stdin, byteorder)
       IN  /\ r.kind = "raise"
           /\ Crash(r.exc)
           /\ stdin' = r.rest
    /\ UNCHANGED <<environ, byteorder, stdout_buf, env, mainVars, flagVars,
                   cleanVars, codecVars>>

\* Line 114, getMessage returns the decoded message.
GetMessageReturn ==
    /\ pc = "getMessage"
    /\ LET r == GetMessageOn(stdin, byteorder)
       IN  /\ r.kind = "return"
           /\ receivedMessage' = r.value
           /\ stdin' = r.rest
    /\ pc' = "dispatch"
    /\ UNCHANGED <<procVars, environ, byteorder, stdout_buf, env, opt_args,
                   pos_args, std_input, cmd, proc_input, child, proc, flagVars,
                   cleanVars, codecVars>>

\* Lines 115-145.
Dispatch ==
    /\ pc = "dispatch"
    /\ LET r == Translate(receivedMessage)
       IN  /\ r.exc = "none"
           /\ opt_args' = r.opt_args
           /\ pos_args' = r.pos_args
           /\ std_input' = r.std_input
    /\ pc' = "environment"
    /\ UNCHANGED <<procVars, environ, ioVars, env, receivedMessage, cmd,
                   proc_input, child, proc, flagVars, cleanVars, codecVars>>

\* Lines 115-145, an index or a type error ends the process.
DispatchRaise ==
    /\ pc = "dispatch"
    /\ Translate(receivedMessage).exc # "none"
    /\ Crash(Translate(receivedMessage).exc)
    /\ UNCHANGED <<environ, ioVars, env, mainVars, flagVars, cleanVars, codecVars>>

\* Lines 148-153.
SetUpEnvironment ==
    /\ pc = "environment"
    /\ env' = ComposeEnv(environ)
    /\ pc' = "params"
    /\ UNCHANGED <<procVars, environ, ioVars, mainVars, flagVars, cleanVars, codecVars>>

\* Lines 156-162.
SetUpParams ==
    /\ pc = "params"
    /\ ProcInput(std_input).exc = "none"
    /\ cmd' = Cmd(opt_args, pos_args)
    /\ proc_input' = ProcInput(std_input).input
    /\ pc' = "run"
    /\ UNCHANGED <<procVars, environ, ioVars, env, receivedMessage, opt_args,
                   pos_args, std_input, child, proc, flagVars, cleanVars, codecVars>>

\* Line 158 raises: std_input is truthy and no str.
SetUpParamsRaise ==
    /\ pc = "params"
    /\ ProcInput(std_input).exc # "none"
    /\ Crash(ProcInput(std_input).exc)
    /\ cmd' = Cmd(opt_args, pos_args)
    /\ UNCHANGED <<environ, ioVars, env, receivedMessage, opt_args, pos_args,
                   std_input, proc_input, child, proc, flagVars, cleanVars, codecVars>>

\* Every element of argv is a str.
ArgvIsText(argv) == \A k \in 1..Len(argv) : IsStr(argv[k])

\* What the child gets as standard input: the pipe fed with `input`, or the
\* bridge's own stdin when input is None.
ChildStdin(input) ==
    IF input.t = "bytes" THEN [from |-> "pipe", bytes |-> input.bytes]
    ELSE [from |-> "inherited", bytes |-> <<>>]

\* Line 165, subprocess.run starts the child.
Spawn ==
    /\ pc = "run"
    /\ ArgvIsText(cmd)
    /\ child' = [state |-> "running", argv |-> cmd,
                 stdin |-> ChildStdin(proc_input), env |-> env]
    /\ pc' = "wait"
    /\ UNCHANGED <<procVars, environ, ioVars, env, receivedMessage, opt_args,
                   pos_args, std_input, cmd, proc_input, proc, flagVars,
                   cleanVars, codecVars>>

\* Line 165, subprocess.run raises on an argument that is no str.
SpawnTypeError ==
    /\ pc = "run"
    /\ ~ArgvIsText(cmd)
    /\ Crash("TypeError")
    /\ UNCHANGED <<environ, ioVars, env, mainVars, flagVars, cleanVars, codecVars>>

\* The OSErrors of an exec that fails: no such file, no permission.
LaunchErrors == {"FileNotFoundError", "PermissionError"}

\* Line 165, subprocess.run raises because the tool cannot be executed: the
\* exception is not caught anywhere in the script.
SpawnLaunchFailure ==
    /\ pc = "run"
    /\ ArgvIsText(cmd)
    /\ \E e \in LaunchErrors : Crash(e)
    /\ child' = [state |-> "failed", argv |-> cmd,
                 stdin |-> ChildStdin(proc_input), env |-> env]
    /\ UNCHANGED <<environ, ioVars, env, receivedMessage, opt_args, pos_args,
                   std_input, cmd, proc_input, proc, flagVars, cleanVars, codecVars>>

ReturnCodes == {0, 1, -9}

ChildStdouts ==
    { <<>>,
      Utf8Encode(<<"p", "w", "\n">>),
      Utf8Encode(<<"\"", "U+00e9", "\\">>),
      <<255>> }

ChildStderrs ==
    { <<>>,
      Utf8Encode(Join(<<"\n">>,
          << GPG_STATUS_PREFIX \o <<" ">> \o ENC_TO \o <<" ", "k">>,
             GPG_STATUS_PREFIX \o <<" ">> \o NO_SECKEY \o <<" ", "k">>,
             <<"g", "p", "g", ":", " ", "f", "a", "i", "l", "e", "d">>,
             <<>> >>)),
      Utf8Encode(CHAN_PREFIX \o <<"3", " ", "<", "-">> \o ERR_WORD \o <<"9", "9">>),
      <<195>> }

\* Line 165, the child terminates and subprocess.run returns.
ChildExit ==
    /\ pc = "wait"
    /\ \E rc \in ReturnCodes, out \in ChildStdouts, err \in ChildStderrs :
          proc' = [returncode |-> rc, stdout |-> out, stderr |-> err]
    /\ child' = [child EXCEPT !.state = "exited"]
    /\ pc' = "respond"
    /\ UNCHANGED <<procVars, environ, ioVars, env, receivedMessage, opt_args,
                   pos_args, std_input, cmd, proc_input, flagVars, cleanVars,
                   codecVars>>

\* Lines 168-177, then the script ends.
SendResponse ==
    /\ pc = "respond"
    /\ Response(proc).exc = "none"
    /\ messageContent' = Response(proc).content
    /\ encodedMessage' = EncodeMessage(Response(proc).content, byteorder)
    /\ stdout_buf' = stdout_buf
                     \o SendMessageBytes(EncodeMessage(Response(proc).content, byteorder))
    /\ pc' = "exited"
    /\ exit_status' = 0
    /\ UNCHANGED <<error, environ, stdin, byteorder, env, mainVars, flagVars, cleanVars>>

\* Lines 168, 169 or 173 raise: the child's output is no UTF-8, or
\* cleanStderr raised.
SendResponseRaise ==
    /\ pc = "respond"
    /\ Response(proc).exc # "none"
    /\ Crash(Response(proc).exc)
    /\ UNCHANGED <<environ, ioVars, env, mainVars, flagVars, cleanVars, codecVars>>

Next ==
    \/ GetMessageExit \/ GetMessageRaise \/ GetMessageReturn
    \/ Dispatch \/ DispatchRaise
    \/ SetUpEnvironment
    \/ SetUpParams \/ SetUpParamsRaise
    \/ Spawn \/ SpawnTypeError \/ SpawnLaunchFailure
    \/ ChildExit
    \/ SendResponse \/ SendResponseRaise

\* Requests of the browser extension, well formed and not.
MainRequests ==
    { JList(<<>>),
      JList(<<W_insert, JStr(<<"/", "p">>), JStr(<<"s">>)>>),
      JList(<<W_insert, JStr(<<"/", "p">>), JStr(<<>>)>>),
      JList(<<W_insert>>),
      JList(<<W_insert, JStr(<<"/", "p">>), JInt(5)>>),
      JList(<<W_generate, JStr(<<"/", "p">>), JInt(8)>>),
      JList(<<W_grepMetaUrls, JList(<<JStr(<<"u">>), JStr(<<"l">>)>>)>>),
      JList(<<W_otp, JStr(<<"p">>)>>),
      JList(<<JStr(<<"p">>)>>),
      JList(<<JStr(<<>>)>>),
      JInt(5) }

\* The frame of text: the length prefix announces n bytes, the last `cut`
\* bytes of the payload are missing.
Frame(text, prefix, cut) == prefix \o SubSeq(text, 1, Len(text) - cut)

TooLong == <<255, 255, 255, 255>>

\* What the process may find on its standard input.
StdinsFor(order) ==
    LET texts == {Utf8Encode(Dumps(r)) : r \in MainRequests}
                 \cup {Utf8Encode(Dumps(JList(<<JStr(<<"p">>)>>)) \o <<" ">>),
                       Utf8Encode(<<"x">>), <<255>>}
    IN  {<<>>}
        \cup {SubSeq(Pack(5, order), 1, n) : n \in 1..3}
        \cup {Frame(x, Pack(Len(x), order), c) : x \in texts, c \in 0..MaxCut}
        \cup {Frame(x, TooLong, 0) : x \in texts}

MainOptStrings ==
    { <<>>,
      <<"-", "-", "a", "r", "m", "o", "r">>,
      <<"-", "-", "d", "e", "b", "u", "g", " ", "x">> }

\* A host that sets the variables the bridge overrides, and one of its own.
FullHostEnv ==
    [k \in {"HOME", "PATH", "TREE_CHARSET", "LANG", GPG_OPTS} |->
        CASE k = "HOME" -> HOME_VALUE
          [] k = "PATH" -> <<"/", "x">>
          [] k = "TREE_CHARSET" -> <<"u">>
          [] k = "LANG" -> <<"C">>
          [] k = GPG_OPTS -> <<"-", "-", "a", "r", "m", "o", "r">>]

MainEnvs ==
    HostEnvsFor(MainOptStrings)
    \cup {EmptyEnv, FullHostEnv, [k \in {"LANG"} |-> <<"C">>]}

Init ==
    /\ pc = "getMessage"
    /\ byteorder \in {"little", "big"}
    /\ stdin \in StdinsFor(byteorder)
    /\ stdout_buf = <<>>
    /\ environ \in MainEnvs
    /\ env = EmptyEnv
    /\ IdleProc /\ IdleMain /\ IdleFlags /\ IdleClean /\ IdleCodec

Spec == Init /\ [][Next]_vars

-----------------------------------------------------------------------------
(* The translator and the launch on their own (passff.py 115-165): the     *)
(* decoded request is any list of a head and up to MaxArgs further         *)
(* elements, or a value that is no list.                                   *)

RequestHeads ==
    { W_insert, W_generate, W_grepMetaUrls, W_otp, W_show,
      JStr(<<"p">>), JStr(<<"/", "p">>), JStr(<<"/", "/", "p">>), JStr(<<>>),
      JInt(5) }

RequestArgs ==
    { JStr(<<"/", "p">>), JStr(<<"/", "/", "p">>), JStr(<<"s">>), JStr(<<>>),
      JStr(<<"U+00e9">>), W_n,
      JInt(8), JList(<<JStr(<<"u">>), JStr(<<"l">>)>>) }

Requests ==
    {JList(<<>>), JInt(5), JStr(<<"p">>), JDict(<<>>)}
    \cup {JList(<<h>> \o a) : h \in RequestHeads, a \in SeqsUpTo(RequestArgs, MaxArgs)}

InitTranslate ==
    /\ pc = "dispatch"
    /\ receivedMessage \in Requests
    /\ opt_args = <<>> /\ pos_args = <<>> /\ std_input = JNone
    /\ cmd = <<>> /\ proc_input = JNone /\ child = NoChild /\ proc = None
    /\ environ = [k \in {"HOME"} |-> HOME_VALUE]
    /\ env = EmptyEnv
    /\ IdleProc /\ IdleIO /\ IdleFlags /\ IdleClean /\ IdleCodec

NextTranslate ==
    \/ Dispatch \/ DispatchRaise
    \/ SetUpEnvironment
    \/ SetUpParams \/ SetUpParamsRaise
    \/ Spawn \/ SpawnTypeError \/ SpawnLaunchFailure

SpecTranslate == InitTranslate /\ [][NextTranslate]_vars

-----------------------------------------------------------------------------
(* The framing codec on its own (passff.py 33-54): a response is encoded,  *)
(* written, and read back from what was written.                           *)

ResponseChars == {"a", "\"", "\\", "\n", "U+00e9"}

ResponseTexts == SeqsUpTo(ResponseChars, MaxText)

Responses ==
    { JDict(<< [key |-> <<"e", "x", "i", "t", "C", "o", "d", "e">>, val |-> JInt(rc)],
               [key |-> <<"s", "t", "d", "o", "u", "t">>, val |-> JStr(out)],
               [key |-> <<"s", "t", "d", "e", "r", "r">>, val |-> JStr(err)],
               [key |-> <<"e", "r", "r", "o", "r", "C", "o", "d", "e">>, val |-> JInt(ec)],
               [key |-> <<"v", "e", "r", "s", "i", "o", "n">>, val |-> JStr(VERSION)] >>) :
        rc \in ReturnCodes, out \in ResponseTexts,
        err \in {<<>>, <<"U+00e9", "\n">>}, ec \in {0, 17} }

InitCodec ==
    /\ pc = "encodeMessage"
    /\ messageContent \in Responses
    /\ encodedMessage = None
    /\ byteorder \in {"little", "big"}
    /\ stdin = <<>> /\ stdout_buf = <<>>
    /\ environ = EmptyEnv /\ env = EmptyEnv
    /\ IdleProc /\ IdleMain /\ IdleFlags /\ IdleClean

\* Lines 43-47.
CodecEncode ==
    /\ pc = "encodeMessage"
    /\ encodedMessage' = EncodeMessage(messageContent, byteorder)
    /\ pc' = "sendMessage"
    /\ UNCHANGED <<procVars, environ, ioVars, env, mainVars, flagVars, cleanVars,
                   messageContent>>

\* Lines 50-54.
CodecSend ==
    /\ pc = "sendMessage"
    /\ stdout_buf' = stdout_buf \o SendMessageBytes(encodedMessage)
    /\ pc' = "readBack"
    /\ UNCHANGED <<procVars, environ, stdin, byteorder, env, mainVars, flagVars,
                   cleanVars, codecVars>>

\* Lines 33-40 run by the peer on the bytes written.
CodecReadBack ==
    /\ pc = "readBack"
    /\ LET r == GetMessageOn(stdout_buf, byteorder)
       IN  /\ receivedMessage' = r.value
           /\ error' = r.exc
           /\ stdin' = r.rest
    /\ pc' = "done"
    /\ UNCHANGED <<exit_status, environ, byteorder, stdout_buf, env, opt_args,
                   pos_args, std_input, cmd, proc_input, child, proc, flagVars,
                   cleanVars, codecVars>>

NextCodec == CodecEncode \/ CodecSend \/ CodecReadBack

SpecCodec == InitCodec /\ [][NextCodec]_vars

-----------------------------------------------------------------------------
(* Properties of setFlags.                                                 *)

\* Number of occurrences of --flag in the option string s.
Occurrences(flag, s) ==
    Cardinality({i \in 1..Len(s) : StartsAt(s, i, DashDash \o flag)})

\* The text setFlags injects for f: --flag=value
Injected(f) == DashDash \o f.flag \o <<"=">> \o f.value

\* C3 (as claimed): whenever the host's option string holds an occurrence of
\* an injected flag, the option string setFlags stores holds exactly one
\* occurrence of that flag, the injected one.
C3_OneOccurrence ==
    pc = "setFlags_done" =>
        \A n \in 1..Len(InjectedFlags) :
            LET f == InjectedFlags[n] IN
            Occurrences(f.flag, EnvGetOpts(environ)) >= 1 =>
                /\ Occurrences(f.flag, env[GPG_OPTS]) = 1
                /\ Contains(env[GPG_OPTS], Injected(f))

-----------------------------------------------------------------------------
(* Properties of cleanStderr.                                              *)

\* A line the loop handles as a channel error or as an error-code status line.
ErrorBearing(line) ==
    \/ ChanSearch(line) # NoMatch
    \/ StatusMatch(line) /\ PkSearch(line) # NoMatch

\* A status line that carries the keyword and no error code.
StatusLineWith(line, keyword) ==
    /\ ChanSearch(line) = NoMatch
    /\ StatusMatch(line)
    /\ PkSearch(line) = NoMatch
    /\ Contains(line, keyword)

EncToLine(line) == StatusLineWith(line, ENC_TO) /\ ~Contains(line, NO_SECKEY)
NoSeckeyLine(line) == StatusLineWith(line, NO_SECKEY)
EndDecryptionLine(line) ==
    /\ StatusLineWith(line, END_DECRYPTION)
    /\ ~Contains(line, NO_SECKEY)
    /\ ~Contains(line, ENC_TO)
    /\ ~Contains(line, BEGIN_DECRYPTION)

\* C4 (as claimed): a stream in which an ENC_TO status line is followed later
\* by a NO_SECKEY status line is classified with errorCode 17.
C4_AlwaysSeventeen ==
    pc = "clean_done" =>
        ((\E i, j \in 1..Len(lines) :
              i < j /\ EncToLine(lines[i]) /\ NoSeckeyLine(lines[j]))
         => cleaned.error_code = 17)

\* C4 (amended): ... errorCode is 17 when the loop reaches the NO_SECKEY line
\* (no END_DECRYPTION marker stops it earlier) and takes no channel-error line
\* and no ERROR pkdecrypt_failed line after it; earlier codes do not matter.
C4_SeventeenUnlessLaterCode ==
    pc = "clean_done" =>
        \A i, j \in 1..Len(lines) :
            ( /\ i < j /\ j <= idx
              /\ EncToLine(lines[i]) /\ NoSeckeyLine(lines[j])
              /\ \A m \in (j + 1)..idx : ~ErrorBearing(lines[m]) )
            => cleaned.error_code = 17

\* A finished pass with a channel error, then ENC_TO, then NO_SECKEY.
C4_Witness ==
    /\ pc = "clean_done"
    /\ cleaned.error_code = 17
    /\ \E h, i, j \in 1..idx :
          /\ h < i /\ i < j
          /\ ChanSearch(lines[h]) # NoMatch
          /\ Mask16(ParseInt(ChanSearch(lines[h]))) # 17
          /\ EncToLine(lines[i]) /\ NoSeckeyLine(lines[j])

\* C5: once the loop has taken an END_DECRYPTION status line it takes no
\* further line, and the pair returned is the one the stream cut after that
\* line gives.
C5_StopsAtEndDecryption ==
    \A k \in 1..idx :
        EndDecryptionLine(lines[k]) =>
            /\ idx = k
            /\ pc \in {"clean_break", "clean_done"}
            /\ pc = "clean_done" =>
                  cleaned = CleanStderr(Join(<<"\n">>, SubSeq(lines, 1, k)))

\* A finished pass that stopped at END_DECRYPTION with lines left over.
C5_Witness ==
    /\ pc = "clean_done"
    /\ idx >= 1 /\ idx < Len(lines)
    /\ EndDecryptionLine(lines[idx])
    /\ \E m \in (idx + 1)..Len(lines) : ErrorBearing(lines[m])

-----------------------------------------------------------------------------
(* Properties of the framing codec.                                        *)

\* The length the four bytes at the head of bs announce.
Announced(bs, order) == Unpack(SubSeq(bs, 1, 4), order)

\* The bytes of bs behind its length prefix.
PayloadOf(bs) == SubSeq(bs, 5, Len(bs))

\* bs is exactly one frame: a prefix that counts the bytes behind it.
ExactFrame(bs, order) ==
    /\ Len(bs) >= 4
    /\ Announced(bs, order) = [hi |-> 0, lo |-> Len(bs) - 4]

\* The value stored under key in the dict d.
DictGet(d, key) == (CHOOSE e \in {d.dict[k] : k \in 1..Len(d.dict)} : e.key = key).val

\* C6: the frame written for a response carries a 4-byte prefix equal to the
\* number of payload bytes behind it, and getMessage on that frame returns a
\* value equal to the response.
C6_FrameRoundTrip ==
    /\ pc \in {"readBack", "done"} =>
          /\ ExactFrame(stdout_buf, byteorder)
          /\ PayloadOf(stdout_buf) = Utf8Encode(Dumps(messageContent))
    /\ pc = "done" =>
          /\ error = "none"
          /\ stdin = <<>>
          /\ receivedMessage.t = "dict"
          /\ receivedMessage = messageContent

\* A response with a character outside ASCII and one that JSON escapes has
\* made the round trip.
C6_Witness ==
    /\ pc = "done"
    /\ error = "none"
    /\ LET out == DictGet(messageContent, <<"s", "t", "d", "o", "u", "t">>).str
       IN  /\ \E k \in 1..Len(out) : out[k] = "U+00e9"
           /\ \E k \in 1..Len(out) : out[k] = "\""

\* The input holds one to three bytes: no whole length prefix.
ShortPrefix(bs) == Len(bs) \in 1..3

\* The input holds a prefix that announces more bytes than follow it.
Truncated(bs, order) ==
    /\ Len(bs) >= 4
    /\ ~U32Less(Announced(bs, order), Len(bs) - 3)

\* The text getMessage hands to the JSON parser.
PayloadText(bs, order) ==
    Utf8Decode(ReadBytes(PayloadOf(bs),
                         Available(PayloadOf(bs), Announced(bs, order))))

\* The bytes read as payload are no UTF-8 text or no JSON text.
InvalidPayload(bs, order) ==
    /\ Len(bs) >= 4
    /\ \/ PayloadText(bs, order).bad
       \/ ~Loads(PayloadText(bs, order).text).ok

\* The step ends the process with a non-zero status, no child and no output.
FatalStep ==
    /\ pc' = "exited"
    /\ exit_status' # 0
    /\ child' = NoChild
    /\ stdout_buf' = <<>>

\* A terminated process does nothing more.
ExitIsFinal ==
    pc = "exited" =>
        /\ pc' = "exited" /\ exit_status' = exit_status
        /\ child' = child /\ stdout_buf' = stdout_buf

\* C7 (as claimed): a truncated payload, a length prefix of 1 to 3 bytes and
\* a payload that is no valid JSON each end the bridge with a non-zero
\* status, without a child and without a response.
C7_TruncatedIsFatal ==
    [][ /\ (pc = "getMessage" /\ ( \/ ShortPrefix(stdin)
                                   \/ Truncated(stdin, byteorder)
                                   \/ InvalidPayload(stdin, byteorder) ))
           => FatalStep
        /\ ExitIsFinal ]_vars

\* C7 (amended): a length prefix of 1 to 3 bytes and a payload whose bytes, as
\* far as they are there, are no valid UTF-8 JSON text end the bridge with a
\* non-zero status, without a child and without a response; a payload
\* shorter than announced whose bytes are a valid JSON text is decoded and
\* dispatched like any request.
C7_UnparsableIsFatal ==
    [][ /\ (pc = "getMessage" /\ ( \/ ShortPrefix(stdin)
                                   \/ InvalidPayload(stdin, byteorder) ))
           => FatalStep
        /\ (pc = "getMessage" /\ Truncated(stdin, byteorder)
                              /\ ~InvalidPayload(stdin, byteorder))
           => /\ pc' = "dispatch"
              /\ receivedMessage' = Loads(PayloadText(stdin, byteorder).text).v
        /\ ExitIsFinal ]_vars

\* The bridge has ended on a frame it could not parse.
C7_Witness ==
    /\ pc = "exited"
    /\ exit_status = 1
    /\ error \in {"struct.error", "JSONDecodeError", "UnicodeDecodeError"}
    /\ child = NoChild
    /\ stdout_buf = <<>>

\* C8: with no byte to read for the length prefix the bridge exits with
\* status 0, has started no child and has written nothing.
C8_EofExitsCleanly ==
    [][ /\ (pc = "getMessage" /\ stdin = <<>>)
           => /\ pc' = "exited"
              /\ exit_status' = 0
              /\ child' = NoChild
              /\ stdout_buf' = <<>>
        /\ ExitIsFinal ]_vars

\* The bridge has ended on an empty input.
C8_Witness ==
    /\ pc = "exited"
    /\ exit_status = 0
    /\ receivedMessage.t = "NoneType"
    /\ stdin = <<>>
    /\ child = NoChild
    /\ stdout_buf = <<>>

-----------------------------------------------------------------------------
(* Properties of the bridge process.                                       *)

\* The output is one frame holding a response dict.
OneResponse(buf, order) ==
    /\ ExactFrame(buf, order)
    /\ GetMessageOn(buf, order).kind = "return"
    /\ GetMessageOn(buf, order).value.t = "dict"

\* C1 (as claimed): for every request getMessage has decoded, the bridge
\* ends with exactly one response frame written, written after the child it
\* started has terminated, and the frame's exitCode is the child's status.
C1_OneResponsePerRequest ==
    /\ stdout_buf # <<>> => child.state = "exited"
    /\ (pc = "exited" /\ receivedMessage.t # "NoneType") =>
          /\ child.state = "exited"
          /\ OneResponse(stdout_buf, byteorder)
          /\ DictGet(GetMessageOn(stdout_buf, byteorder).value,
                     <<"e", "x", "i", "t", "C", "o", "d", "e">>)
             = JInt(proc.returncode)

\* C9 (as claimed): when the tool cannot be launched the bridge does not
\* crash and writes one response.
C9_LaunchFailureAnswered ==
    child.state = "failed" =>
        /\ error = "none"
        /\ pc = "exited" => OneResponse(stdout_buf, byteorder)

-----------------------------------------------------------------------------
(* Properties of the translator.                                           *)

\* The request has one of the shapes the dispatch names.
ExplicitShape(m) ==
    \/ StrEq(m.list[1], W_insert.str) /\ Len(m.list) >= 3
    \/ StrEq(m.list[1], W_generate.str) /\ Len(m.list) >= 3
    \/ StrEq(m.list[1], W_grepMetaUrls.str) /\ Len(m.list) = 2
    \/ StrEq(m.list[1], W_otp.str) /\ Len(m.list) = 2

\* key with a leading separator: added when key does not start with one.
Normalized(key) ==
    IF key # <<>> /\ key[1] = "/" THEN key ELSE <<"/">> \o key

\* A non-empty list whose first element is a text and that has no explicit
\* shape.
BareRequest(m) ==
    /\ m.t = "list" /\ Len(m.list) > 0
    /\ IsStr(m.list[1])
    /\ ~ExplicitShape(m)

\* C2 (as claimed): a non-empty request of no explicit shape is translated
\* without an error to [pass, show, --, normalized first element], with no
\* stdin payload.
C2_FallsBackToShow ==
    (pc # "dispatch" /\ BareRequest(receivedMessage)) =>
        /\ error \notin {"IndexError", "TypeError", "KeyError"}
        /\ Cmd(opt_args, pos_args)
           = <<COMMAND, W_show, W_dashdash, JStr(Normalized(receivedMessage.list[1].str))>>
        /\ std_input.t = "NoneType"

\* ["insert", path, secret, ...] with a text path and a text secret.
InsertRequest(m) ==
    /\ m.t = "list" /\ Len(m.list) >= 3
    /\ StrEq(m.list[1], W_insert.str)
    /\ IsStr(m.list[2]) /\ IsStr(m.list[3])

\* C10 (as claimed): the child of an insert request runs with argv
\* [pass, insert, -m, --, path] and is fed exactly the bytes of the secret,
\* the empty secret included; the child of any other request is fed nothing.
C10_InsertFeedsSecret ==
    child.state = "running" =>
        IF InsertRequest(receivedMessage)
        THEN /\ child.argv = <<COMMAND, W_insert, W_m, W_dashdash, receivedMessage.list[2]>>
             /\ child.stdin = [from |-> "pipe",
                               bytes |-> Utf8Encode(receivedMessage.list[3].str)]
        ELSE child.stdin.from # "pipe"

\* The request takes the otp branch with a text key.
OtpRequest(m) ==
    /\ m.t = "list" /\ Len(m.list) = 2
    /\ StrEq(m.list[1], W_otp.str)
    /\ IsStr(m.list[2])

\* The request takes the show branch with a text key: its first element.
ShowRequest(m) ==
    /\ BareRequest(m)
    /\ ~StrEq(m.list[1], W_insert.str)
    /\ ~StrEq(m.list[1], W_generate.str)

\* The key the otp or the show branch normalizes.
KeyOf(m) == IF OtpRequest(m) THEN m.list[2].str ELSE m.list[1].str

\* C11 (as claimed): for every key of the otp or the show branch, the empty
\* key included, the positional argument is the key when it starts with "/"
\* and "/" followed by the key otherwise; it starts with "/", and
\* normalizing it again returns it unchanged.
C11_KeyNormalized ==
    (pc # "dispatch" /\ (OtpRequest(receivedMessage) \/ ShowRequest(receivedMessage))) =>
        /\ pos_args = <<JStr(Normalized(KeyOf(receivedMessage)))>>
        /\ pos_args[1].str[1] = "/"
        /\ NormalizeKey(pos_args[1]).pos_args = pos_args

\* The words an argv may hold before "--".
FixedWords ==
    {COMMAND, W_show, W_insert, W_m, W_generate, W_n, W_grep, W_iE, W_otp}

\* The first element of a list request when it is a text, else no word.
ActionWord(m) ==
    IF m.t = "list" /\ Len(m.list) > 0 /\ IsStr(m.list[1]) THEN m.list[1].str
    ELSE <<>>

\* The option flags the action word selects; for generate, "-n" when the
\* elements after the length hold the literal "-n".
OptionsFor(m) ==
    LET w == ActionWord(m)
    IN  IF w = W_insert.str THEN <<W_insert, W_m>>
        ELSE IF w = W_generate.str
            THEN <<W_generate>>
                 \o (IF \E k \in 4..Len(m.list) : StrEq(m.list[k], W_n.str)
                     THEN <<W_n>> ELSE <<>>)
        ELSE IF w = W_grepMetaUrls.str /\ Len(m.list) = 2 THEN <<W_grep, W_iE>>
        ELSE IF w = W_otp.str /\ Len(m.list) = 2 THEN <<W_otp>>
        ELSE <<W_show>>

\* The position of the first "--" of argv, 0 when there is none.
SeparatorAt(argv) ==
    IF \E j \in 1..Len(argv) : argv[j] = W_dashdash
    THEN CHOOSE j \in 1..Len(argv) :
             /\ argv[j] = W_dashdash
             /\ \A i \in 1..(j - 1) : argv[i] # W_dashdash
    ELSE 0

\* C12: every argv built holds "--"; what stands before the first "--" is
\* the tool and the fixed option words the action word selects; everything
\* taken from the request stands after it, and for an insert that is the
\* path alone, not the secret.
C12_DashDashSeparates ==
    cmd # <<>> =>
        LET k == SeparatorAt(cmd)
        IN  /\ k > 0
            /\ \A i \in 1..(k - 1) : cmd[i] \in FixedWords
            /\ SubSeq(cmd, 1, k - 1) = <<COMMAND>> \o OptionsFor(receivedMessage)
            /\ SubSeq(cmd, k + 1, Len(cmd)) = pos_args
            /\ ActionWord(receivedMessage) = W_insert.str =>
                  /\ Len(cmd) = k + 1
                  /\ cmd[k + 1] = receivedMessage.list[2]

\* The argv of a generate request whose path and length are the text "-n":
\* both stand after "--".
C12_Witness ==
    /\ cmd = <<COMMAND, W_generate, W_n, W_dashdash, W_n, W_n>>
    /\ ActionWord(receivedMessage) = W_generate.str

-----------------------------------------------------------------------------
(* Where setFlags puts the injected flags.                                 *)

\* s[-len(p):] == p
EndsWith(s, p) == Len(p) <= Len(s) /\ SubSeq(s, Len(s) - Len(p) + 1, Len(s)) = p

StatusFdFlag == InjectedFlags[1]
DebugFlag == InjectedFlags[2]

\* What one removal pass per injected flag leaves of the host's options.
HostRemainder(e) ==
    ReSubFlag(DebugFlag.flag, ReSubFlag(StatusFdFlag.flag, EnvGetOpts(e), 1), 1)

\* C13 (as claimed): the injected flags stand at the end of the final option
\* string, after what remains of the host's options, status-fd then debug.
C13_InjectedLast ==
    pc = "setFlags_done" =>
        /\ EndsWith(env[GPG_OPTS],
                    Injected(StatusFdFlag) \o <<" ">> \o Injected(DebugFlag))
        /\ StartsWith(env[GPG_OPTS], Strip(HostRemainder(environ)))

\* C13 (amended): each iteration puts its flag at the start of the option
\* string, before what remains of it; the final option string starts with
\* --debug=ipc, then --status-fd=2, and what remains of the host's options
\* follows the two.
C13_InjectedFirst ==
    /\ (pc = "setFlags_loop" /\ Len(flags) < Len(InjectedFlags)) =>
          StartsWith(opts,
                     Injected(InjectedFlags[Len(InjectedFlags) - Len(flags)])
                     \o <<" ">>)
    /\ pc = "setFlags_done" =>
          env[GPG_OPTS] = RStrip(Injected(DebugFlag) \o <<" ">>
                                 \o Injected(StatusFdFlag) \o <<" ">>
                                 \o HostRemainder(environ))

\* A host option survives and stands behind the two injected flags.
C13_Witness ==
    /\ pc = "setFlags_done"
    /\ EnvGetOpts(environ) = <<"-", "-", "a", "r", "m", "o", "r">>
    /\ env[GPG_OPTS] = Injected(DebugFlag) \o <<" ">> \o Injected(StatusFdFlag)
                       \o <<" ">> \o EnvGetOpts(environ)

-----------------------------------------------------------------------------
(* The environment of the child.                                           *)

\* The variables the composer sets itself.
ComposedKeys == {"TREE_CHARSET", "PATH", GPG_OPTS}

\* e is the environment the claim describes for the host environment h.
FramedOn(e, h) ==
    /\ DOMAIN e = DOMAIN h \cup ComposedKeys \cup {"HOME"}
    /\ e["TREE_CHARSET"] = TREE_CHARSET_VALUE
    /\ e["PATH"] = PATH_VALUE
    /\ \A k \in DOMAIN h \ ComposedKeys : e[k] = h[k]

\* C14: the composed environment, which is the one the child gets, has
\* TREE_CHARSET and PATH at their constants, the host's HOME when the host
\* has one, the host's value for every other variable but
\* PASSWORD_STORE_GPG_OPTS, and no further variable; setFlags leaves every
\* key but PASSWORD_STORE_GPG_OPTS as it is.
C14_EnvironmentFrame ==
    /\ pc \in {"params", "run", "wait", "respond"} => FramedOn(env, environ)
    /\ child.state # "none" => child.env = env /\ FramedOn(child.env, environ)
    /\ \A k \in DOMAIN env \ {GPG_OPTS} : SetFlags(env, InjectedFlags)[k] = env[k]
    /\ DOMAIN SetFlags(env, InjectedFlags) = DOMAIN env \cup {GPG_OPTS}

\* A child runs under a host that sets PATH, TREE_CHARSET and a variable of
\* its own.
C14_Witness ==
    /\ child.state = "running"
    /\ environ = FullHostEnv
    /\ child.env["LANG"] = environ["LANG"]
    /\ child.env["PATH"] # environ["PATH"]

-----------------------------------------------------------------------------
(* The error code cleanStderr returns.                                     *)

\* A line that sets the error code: a channel-error line, a status line with
\* ERROR pkdecrypt_failed <code>, or a NO_SECKEY status line.
CodeBearing(line) == ErrorBearing(line) \/ NoSeckeyLine(line)

\* The number on a code-bearing line, before the mask.
NumberOn(line) ==
    IF ChanSearch(line) # NoMatch THEN ParseInt(ChanSearch(line))
    ELSE IF PkSearch(line) # NoMatch THEN ParseInt(PkSearch(line))
    ELSE 17

\* The code of the last code-bearing line among the first n, 0 without one.
RECURSIVE CodeAfter(_, _)
CodeAfter(ls, n) ==
    IF n = 0 THEN 0
    ELSE IF CodeBearing(ls[n]) THEN NumberOn(ls[n]) % 65536
    ELSE CodeAfter(ls, n - 1)

\* The index of the first END_DECRYPTION marker, or the number of lines.
StopIndex(ls) ==
    IF \E k \in 1..Len(ls) : EndDecryptionLine(ls[k])
    THEN CHOOSE k \in 1..Len(ls) :
             /\ EndDecryptionLine(ls[k])
             /\ \A m \in 1..(k - 1) : ~EndDecryptionLine(ls[m])
    ELSE Len(ls)

\* The pass has a next step: a branch of the loop body takes the next line,
\* or the loop is over and the return follows.
PassGoesOn ==
    \/ /\ pc = "clean_loop" /\ idx < Len(lines)
       /\ Rule(preserve, lines[idx + 1]) \in {"chan", "status", "cont", "append"}
       /\ Rule(preserve, lines[idx + 1]) = "cont" => preserve # <<>>
    \/ pc = "clean_loop" /\ idx = Len(lines)
    \/ pc = "clean_break"

\* C15: cleanStderr always comes to its return; the error code is at every
\* step within 0..65535 and is the code of the last code-bearing line taken
\* (code & 0xFFFF, or 17 for NO_SECKEY), 0 when there was none; the code
\* returned is that of the last code-bearing line before the first
\* END_DECRYPTION marker.
C15_LastCodeWins ==
    /\ error_code \in 0..65535
    /\ error_code = CodeAfter(lines, idx)
    /\ pc # "clean_done" => PassGoesOn
    /\ pc = "clean_done" =>
          cleaned.error_code = CodeAfter(lines, StopIndex(lines))

\* A pass over NO_SECKEY, some line, and a pkdecrypt_failed code above 16
\* bits has returned the masked code.
C15_Witness ==
    /\ pc = "clean_done"
    /\ Len(lines) = 3
    /\ NoSeckeyLine(lines[1])
    /\ StatusMatch(lines[3]) /\ PkSearch(lines[3]) # NoMatch
    /\ ParseInt(PkSearch(lines[3])) > 65535
    /\ cleaned.error_code = 99

\* C15, the part that fails: cleanStderr returns without raising whatever the
\* diagnostic stream is, so no pass over a stream ends in an exception.
C15_NeverRaises == pc # "clean_raised"

\* The lines of a cleaned log.
LogLines(log) == IF log = <<>> THEN <<>> ELSE Split(log)

\* C16: a step that takes a channel-error line (either direction, indented
\* or not) changes the error code to the line's masked code and nothing
\* else: the preserve list, the stream and the result stay as they were; and
\* no line of a returned cleaned log matches the channel-error pattern.
C16_ChanOnlySetsCode ==
    [][/\ CleanChan =>
              /\ preserve' = preserve
              /\ <<stderr, lines, cleaned>>' = <<stderr, lines, cleaned>>
              /\ pc' = "clean_loop" =>
                     error_code' = Mask16(ParseInt(ChanSearch(lines[idx + 1])))
              /\ pc' # "clean_loop" => error_code' = error_code
       /\ pc' = "clean_done" =>
              \A k \in 1..Len(LogLines(cleaned'.stderr)) :
                  ChanSearch(LogLines(cleaned'.stderr)[k]) = NoMatch]_vars

\* A pass over a plain line and then a `->` channel-error line has returned:
\* the plain line is the cleaned log and the code is the channel's.
C16_Witness ==
    /\ pc = "clean_done"
    /\ Len(lines) = 2
    /\ Rule(<<>>, lines[1]) = "append"
    /\ Contains(lines[2], <<"-", ">">> \o ERR_WORD)
    /\ ChanSearch(lines[2]) # NoMatch
    /\ cleaned.stderr = lines[1]
    /\ cleaned.error_code = Mask16(ParseInt(ChanSearch(lines[2])))

\* A status line taken by the BEGIN_DECRYPTION branch (lines 95-96).
BeginDecryptionLine(line) ==
    /\ StatusLineWith(line, BEGIN_DECRYPTION)
    /\ ~Contains(line, NO_SECKEY)
    /\ ~Contains(line, ENC_TO)

\* The index of the last ENC_TO line among the first n lines, 0 without one.
LastEncTo(ls, n) ==
    IF \E k \in 1..n : EncToLine(ls[k])
    THEN CHOOSE k \in 1..n :
             EncToLine(ls[k]) /\ \A m \in (k + 1)..n : ~EncToLine(ls[m])
    ELSE 0

\* C17: the step that takes an ENC_TO status line leaves the preserve list
\* empty, and the step that takes a BEGIN_DECRYPTION status line leaves it
\* with exactly its former last entry (continuation lines included), or empty
\* when it was empty; neither step changes the error code.  A returned
\* cleaned log is the log of the lines after the last ENC_TO line the pass
\* took: no line before that marker contributes to it.
C17_MarkersCutPreserve ==
    [][/\ (CleanStatus /\ EncToLine(lines[idx + 1])) =>
              preserve' = <<>> /\ error_code' = error_code
       /\ (CleanStatus /\ BeginDecryptionLine(lines[idx + 1])) =>
              /\ preserve = <<>> => preserve' = <<>>
              /\ preserve # <<>> => preserve' = <<preserve[Len(preserve)]>>
              /\ error_code' = error_code
       /\ (pc' = "clean_done" /\ LastEncTo(lines, StopIndex(lines)) > 0) =>
              cleaned'.stderr =
                  CleanStderr(Join(<<"\n">>,
                      SubSeq(lines, LastEncTo(lines, StopIndex(lines)) + 1,
                             Len(lines)))).stderr]_vars

\* A pass over a plain line, an ENC_TO line and another plain line has
\* returned: the cleaned log is the line after the marker alone.
C17_Witness ==
    /\ pc = "clean_done"
    /\ Len(lines) = 3
    /\ Rule(<<>>, lines[1]) = "append" /\ ~StartsWith(lines[1], DBG_PREFIX)
    /\ EncToLine(lines[2])
    /\ Rule(<<>>, lines[3]) = "append"
    /\ lines[3] # lines[1]
    /\ cleaned.stderr = lines[3]

\* The step takes the next line of the stream.
LineStep == pc = "clean_loop" /\ idx < Len(lines) /\ idx' = idx + 1

\* The line carries the channel-error pattern, anywhere.
ChanLine(line) == ChanSearch(line) # NoMatch

\* The line begins with two spaces.
Indented(line) == StartsWith(line, <<" ", " ">>)

\* The line without its leading whitespace.
Unindented(line) == SubSeq(line, SkipSpace(line, 1), Len(line))

\* A status line none of whose keywords the classifier knows.
UnrecognizedStatus(line) ==
    /\ ~ChanLine(line) /\ StatusMatch(line)
    /\ PkSearch(line) = NoMatch
    /\ \A w \in {NO_SECKEY, ENC_TO, BEGIN_DECRYPTION, END_DECRYPTION} :
           ~Contains(line, w)

\* The step added nothing to the preserve list: it is as before, or cut.
NothingAdded == preserve' \in {preserve, <<>>, KeepLast(preserve)}

\* The step joined `line` to the last entry and left the others alone.
JoinedToLast(line) ==
    /\ preserve # <<>>
    /\ Len(preserve') = Len(preserve)
    /\ SubSeq(preserve', 1, Len(preserve) - 1)
           = SubSeq(preserve, 1, Len(preserve) - 1)
    /\ preserve'[Len(preserve)] = preserve[Len(preserve)] \o <<"\n">> \o line

\* C18 (as claimed): a line that matches the channel-error pattern or the
\* status-marker format is never added to the preserve list, even when it
\* is indented.
C18_IndentedMarkerNeverAdded ==
    [][LineStep =>
          ((ChanLine(lines[idx + 1]) \/ StatusMatch(Unindented(lines[idx + 1])))
              => NothingAdded)]_vars

\* C18: every line is handled by the first rule that applies.  A line with
\* the channel-error pattern anywhere on it leaves the preserve list as it
\* was; otherwise a line that begins with the status prefix adds nothing to
\* it, and changes neither it nor the error code when its keyword is not
\* recognized; otherwise a line that begins with two spaces is joined to
\* the last entry when there is one; every other line, so also an indented
\* one met with an empty list, becomes a new entry.  A status marker that is
\* indented does not begin with the prefix: it is joined or appended like
\* any other indented line.
C18_FirstRuleApplies ==
    [][LineStep =>
          LET line == lines[idx + 1]
          IN  /\ ChanLine(line) => preserve' = preserve
              /\ (~ChanLine(line) /\ StatusMatch(line)) => NothingAdded
              /\ UnrecognizedStatus(line) =>
                     /\ preserve' = preserve /\ error_code' = error_code
                     /\ pc' = "clean_loop"
              /\ (~ChanLine(line) /\ ~StatusMatch(line) /\ Indented(line)
                    /\ preserve # <<>>) =>
                     JoinedToLast(line) /\ error_code' = error_code
              /\ (~ChanLine(line) /\ ~StatusMatch(line)
                    /\ (~Indented(line) \/ preserve = <<>>)) =>
                     preserve' = Append(preserve, line)
                     /\ error_code' = error_code]_vars

\* A plain line was followed by an indented ENC_TO marker, and the marker
\* was joined to the plain line's entry.
C18_Witness ==
    /\ pc = "clean_loop"
    /\ idx = 2
    /\ Rule(<<>>, lines[1]) = "append"
    /\ Indented(lines[2])
    /\ StatusMatch(Unindented(lines[2]))
    /\ Contains(lines[2], ENC_TO)
    /\ preserve = <<lines[1] \o <<"\n">> \o lines[2]>>

\* The whitespace-separated words of s from index i on.
RECURSIVE WordsFrom(_, _)
WordsFrom(s, i) ==
    LET a == SkipSpace(s, i)
        b == SkipNonSpace(s, a)
    IN  IF a > Len(s) THEN <<>>
        ELSE <<SubSeq(s, a, b - 1)>> \o WordsFrom(s, b)

Words(s) == WordsFrom(s, 1)

\* The word is an injected flag without a value: --flag
BareInjected(w) == \E k \in 1..Len(InjectedFlags) : w = DashDash \o InjectedFlags[k].flag

\* The word is an injected flag with its value attached: --flag=value
ValuedInjected(w) ==
    \E k \in 1..Len(InjectedFlags) :
        StartsWith(w, DashDash \o InjectedFlags[k].flag \o <<"=">>)

\* The words from index i on that are neither an occurrence of an injected
\* flag nor the value that follows one: the host's other options.
RECURSIVE OtherOptionsFrom(_, _)
OtherOptionsFrom(ws, i) ==
    IF i > Len(ws) THEN <<>>
    ELSE IF BareInjected(ws[i])
        THEN IF i < Len(ws) /\ ~StartsWith(ws[i + 1], <<"-">>)
             THEN OtherOptionsFrom(ws, i + 2)
             ELSE OtherOptionsFrom(ws, i + 1)
    ELSE IF ValuedInjected(ws[i]) THEN OtherOptionsFrom(ws, i + 1)
    ELSE <<ws[i]>> \o OtherOptionsFrom(ws, i + 1)

\* a is a subsequence of b: its entries occur in b, whole and in order.
RECURSIVE IsSubsequence(_, _)
IsSubsequence(a, b) ==
    IF a = <<>> THEN TRUE
    ELSE IF b = <<>> THEN FALSE
    ELSE IF Head(a) = Head(b) THEN IsSubsequence(Tail(a), Tail(b))
    ELSE IsSubsequence(a, Tail(b))

\* C19: setFlags removes only the occurrences of the two injected flags,
\* each with its value: every other option of the host's option string,
\* such as --debug-level or an option that follows a valueless --debug, is
\* in the stored option string, unchanged and in its original order.
C19_OtherOptionsKept ==
    pc = "setFlags_done" =>
        IsSubsequence(OtherOptionsFrom(Words(EnvGetOpts(environ)), 1),
                      Words(env[GPG_OPTS]))

\* C20: the lines of a returned cleaned log are a subsequence of the lines
\* of the stream, each whole and in the stream's order, and none of them
\* begins with the debug prefix `gpg: DBG:` or the status prefix `[GNUPG:]`.
C20_LogIsSubsequence ==
    pc = "clean_done" =>
        /\ IsSubsequence(LogLines(cleaned.stderr), lines)
        /\ \A k \in 1..Len(LogLines(cleaned.stderr)) :
               /\ ~StartsWith(LogLines(cleaned.stderr)[k], DBG_PREFIX)
               /\ ~StartsWith(LogLines(cleaned.stderr)[k], GPG_STATUS_PREFIX)

\* A pass over a debug line that is no channel error, a plain line and an
\* indented line has returned the last two as the cleaned log.
C20_Witness ==
    /\ pc = "clean_done"
    /\ Len(lines) = 3
    /\ StartsWith(lines[1], DBG_PREFIX) /\ ~ChanLine(lines[1])
    /\ Indented(lines[3])
    /\ LogLines(cleaned.stderr) = <<lines[2], lines[3]>>

====
